---- MODULE Spec2Model ----
(***************************************************************************)
(* Tonality backend: the relational store (users, friendships,             *)
(* communities, polls), the session issuer and the Spotify access-token    *)
(* cache, modelled from backendScripts/main.py and                         *)
(* backendScripts/database.py.                                             *)
(*                                                                         *)
(* Every HTTP handler without an await point is one action (it runs to     *)
(* completion on the event loop).  A handler that awaits the provider is   *)
(* split at the await.  `resp' records the response of the last handler.   *)
(* A SELECT ... .first() without ORDER BY is a nondeterministic choice     *)
(* among the matching rows.                                                *)
(***************************************************************************)
EXTENDS Integers, Sequences, FiniteSets, TLC

(* ---------------------------- bounds ----------------------------------- *)
MaxUserId == 3
MaxFriendshipId == 4
MaxVoteId == 3
MaxMembershipId == 3
MaxIssued == 2
MaxNow == 473040000
TickStep == 157680000
MaxInflight == 2
MaxCacheNow == 1200
CacheTickStep == 100
MaxPollId == 4
MaxOptionId == 8
MaxCommunityId == 6
MaxSongNow == 129600
SongTickStep == 43200

(* --------------------------- constants --------------------------------- *)
NULL == "NULL"
NoUser == 0
BCRYPT_MAX_PASSWORD_BYTES == 72
ACCESS_TOKEN_EXPIRE_MINUTES == 5256000
CACHE_BUFFER_SECONDS == 300
DEFAULT_EXPIRES_IN == 3600

VARIABLES
    fk_enforced,          \* does the configured database engine enforce FOREIGN KEYs
    client_id_configured, \* is SPOTIFY_CLIENT_ID set in the environment
    now,                  \* wall clock, seconds
    users,                \* table users: id -> row
    nextUserId,           \* auto-increment of users.id
    friendships,          \* table friendship: set of rows
    nextFriendshipId,     \* auto-increment of friendship.id
    communities,          \* table community: id -> row
    memberships,          \* table communitymembership: set of rows
    nextMembershipId,     \* auto-increment of communitymembership.id
    polls,                \* table poll: id -> row
    options,              \* table polloption: id -> row
    poll_votes,           \* table pollvote: set of rows
    nextVoteId,           \* auto-increment of pollvote.id
    issued,               \* history: the bearer tokens handed out, with issue time and delta
    auth,                 \* outcome of the last get_current_user dependency
    access_token_cache,   \* _access_token_cache: user id -> entry
    inflight,             \* get_spotify_access_token calls awaiting the provider
    token_event,          \* what the last get_spotify_access_token step did
    refreshed_at,         \* history: user id -> time of the last successful refresh
    song_of_day_cache,    \* _song_of_day_cache: the track and the date it was cached for
    song_of_day_file,     \* content of song_of_day_cache.json
    song_cached_for,      \* history: date -> the track first cached for it
    listening_activity,   \* table listeningactivity: user id -> track name of the row
    resp                  \* response of the last handler

vEnv == <<fk_enforced, client_id_configured, now>>
vUsers == <<users, nextUserId>>
vFriends == <<friendships, nextFriendshipId>>
vCommunities == <<communities, memberships, nextMembershipId>>
vPolls == <<polls, options, poll_votes, nextVoteId>>
vSpotify == <<access_token_cache, inflight, refreshed_at>>
vSong == <<song_of_day_cache, song_of_day_file, song_cached_for>>
vListening == <<listening_activity>>

\* what the handler of the last step observed and answered
trace == <<auth, token_event>>

vars == <<vEnv, vUsers, vFriends, vCommunities, vPolls, issued, vSpotify, vSong, vListening, trace, resp>>

\* what a handler of one table leaves alone
exceptUsers == <<vEnv, vFriends, vCommunities, vPolls, issued, vSpotify, vSong, vListening>>
exceptFriends == <<vEnv, vUsers, vCommunities, vPolls, issued, vSpotify, vSong, vListening>>
exceptCommunities == <<vEnv, vUsers, vFriends, vPolls, issued, vSpotify, vSong, vListening>>
exceptPolls == <<vEnv, vUsers, vFriends, vCommunities, issued, vSpotify, vSong, vListening>>

(* ------------------------- string helpers ------------------------------ *)
\* str.strip(): drop whitespace at both ends
RECURSIVE LStripSpace(_)
LStripSpace(s) ==
    IF s # <<>> /\ Head(s) = " " THEN LStripSpace(Tail(s)) ELSE s

RECURSIVE RStripSpace(_)
RStripSpace(s) ==
    IF s # <<>> /\ s[Len(s)] = " " THEN RStripSpace(SubSeq(s, 1, Len(s) - 1)) ELSE s

Strip(s) == RStripSpace(LStripSpace(s))

\* str.lstrip('@'): drop leading '@' characters
RECURSIVE LStripAt(_)
LStripAt(s) ==
    IF s # <<>> /\ Head(s) = "@" THEN LStripAt(Tail(s)) ELSE s

(* ----------------------------- passwords ------------------------------- *)
\* a password is known by its number of one-byte and of three-byte characters
Password(ascii, wide) == [ascii |-> ascii, wide |-> wide]

\* len(password.encode("utf-8"))
Utf8Len(password) == password.ascii + 3 * password.wide

\* pwd_context.hash / pwd_context.verify (bcrypt: verify succeeds for the
\* hashed password only)
Hash(password) == <<"bcrypt", password>>
Verify(password, password_hash) == password_hash = Hash(password)

PwShort == Password(8, 0)
PwWide == Password(0, 24)
PwLong == Password(1, 24)
PasswordInputs == {PwShort, PwWide, PwLong}

(* --------------------------- store helpers ----------------------------- *)
Users(name, pwhash) ==
    [username |-> name, password_hash |-> pwhash,
     show_listening_activity |-> TRUE, allow_friend_requests |-> TRUE,
     spotify_refresh_token |-> NULL]

\* database.get_user_by_username: the id of the row, or NoUser
get_user_by_username(username) ==
    IF \E i \in DOMAIN users : users[i].username = username
    THEN CHOOSE i \in DOMAIN users : users[i].username = username
    ELSE NoUser

Friendship(id, u, f, s) ==
    [id |-> id, user_id |-> u, friend_id |-> f, status |-> s]

RowsFromTo(fs, u, f) == {r \in fs : r.user_id = u /\ r.friend_id = f}

\* database.get_user_friends: ids of the users on accepted rows of user_id
get_user_friends(user_id) ==
    {r.friend_id : r \in {x \in friendships : x.user_id = user_id /\ x.status = "accepted"}}
        \cap DOMAIN users

\* the response of a handler: status code and detail/message, with the
\* caller, the row or user the request named and one further argument
ReplyArg(op, caller, target, arg, status, detail) ==
    [op |-> op, caller |-> caller, target |-> target, arg |-> arg,
     status |-> status, detail |-> detail]

Reply(op, caller, target, status, detail) ==
    ReplyArg(op, caller, target, 0, status, detail)

\* the persistent and in-memory state: a handler that raises before its
\* first commit leaves it alone
store == <<vEnv, vUsers, vFriends, vCommunities, vPolls, issued, vSpotify, vSong, vListening>>

Reject(r) == resp' = r /\ UNCHANGED store

(* ======================= friend requests =============================== *)
UserIdInputs == 1..MaxUserId
RequestIdInputs == 1..MaxFriendshipId
UsernameInputs ==
    {<<>>, <<"@">>, <<"a">>, <<"@", "a">>, <<" ", "b", " ">>, <<"b">>, <<"z">>}

\* the duplicate checks with the lookup of the caller's own row left out
CheckIncomingAndInsert(op, user, target) ==
    LET incoming == {r \in RowsFromTo(friendships, target, user) : r.status = "pending"}
    IN  IF incoming # {}
        THEN Reject(Reply(op, user, target, 400, "This user has already sent you a request"))
        ELSE /\ nextFriendshipId <= MaxFriendshipId
             /\ friendships' = friendships \cup
                    {Friendship(nextFriendshipId, user, target, "pending")}
             /\ nextFriendshipId' = nextFriendshipId + 1
             /\ resp' = Reply(op, user, target, 200, "Friend request sent")
             /\ UNCHANGED exceptFriends

\* main.py 349-374 / 397-422: the duplicate checks and the insert shared by
\* both request handlers
CheckExistingAndInsert(op, user, target) ==
    LET existing == RowsFromTo(friendships, user, target)
        incoming == {r \in RowsFromTo(friendships, target, user) : r.status = "pending"}
    IN  IF existing # {}
        THEN \E e \in existing :
                IF e.status = "accepted"
                THEN Reject(Reply(op, user, target, 400, "Already friends with this user"))
                ELSE Reject(Reply(op, user, target, 400, "Friend request already sent"))
        ELSE IF incoming # {}
        THEN Reject(Reply(op, user, target, 400, "This user has already sent you a request"))
        ELSE /\ nextFriendshipId <= MaxFriendshipId
             /\ friendships' = friendships \cup
                    {Friendship(nextFriendshipId, user, target, "pending")}
             /\ nextFriendshipId' = nextFriendshipId + 1
             /\ resp' = Reply(op, user, target, 200, "Friend request sent")
             /\ UNCHANGED exceptFriends

\* the request checks with the allow_friend_requests test left out
RequestChecksIgnoringPrivacy(op, user, target) ==
    CheckExistingAndInsert(op, user, target)

\* main.py 345-374 / 393-422
RequestChecks(op, user, target) ==
    IF ~users[target].allow_friend_requests
    THEN Reject(Reply(op, user, target, 403, "User is not accepting friend requests"))
    ELSE CheckExistingAndInsert(op, user, target)

\* POST /api/friends/request-by-username
send_friend_request_by_username(user, data_username) ==
    LET op == "send_friend_request_by_username"
        username == LStripAt(Strip(data_username))
        target == get_user_by_username(username)
    IN  IF username = <<>>
        THEN Reject(Reply(op, user, NoUser, 400, "Username is required"))
        ELSE IF target = NoUser
        THEN Reject(Reply(op, user, NoUser, 404, "User not found"))
        ELSE IF target = user
        THEN Reject(Reply(op, user, target, 400, "Cannot send friend request to yourself"))
        ELSE RequestChecks(op, user, target)

\* POST /api/friends/request/{user_id}
send_friend_request(user, user_id) ==
    LET op == "send_friend_request"
    IN  IF user_id = user
        THEN Reject(Reply(op, user, user_id, 400, "Cannot send friend request to yourself"))
        ELSE IF user_id \notin DOMAIN users
        THEN Reject(Reply(op, user, user_id, 404, "User not found"))
        ELSE RequestChecks(op, user, user_id)

\* session.get(Friendship, request_id): the set holding the row, or {}
GetFriendship(request_id) == {r \in friendships : r.id = request_id}

\* POST /api/friends/requests/{request_id}/accept
accept_friend_request(user, request_id) ==
    LET op == "accept_friend_request"
        found == GetFriendship(request_id)
    IN  IF found = {}
        THEN Reject(Reply(op, user, NoUser, 404, "Friend request not found"))
        ELSE LET friendship == CHOOSE r \in found : TRUE
             IN  IF friendship.friend_id # user
                 THEN Reject(Reply(op, user, friendship.user_id, 403, "This request is not for you"))
                 ELSE IF friendship.status # "pending"
                 THEN Reject(Reply(op, user, friendship.user_id, 400, "Request is not pending"))
                 ELSE /\ nextFriendshipId <= MaxFriendshipId
                      /\ friendships' = (friendships \ {friendship}) \cup
                            {[friendship EXCEPT !.status = "accepted"],
                             Friendship(nextFriendshipId, user, friendship.user_id, "accepted")}
                      /\ nextFriendshipId' = nextFriendshipId + 1
                      /\ resp' = Reply(op, user, friendship.user_id, 200, "Friend request accepted")
                      /\ UNCHANGED exceptFriends

\* POST /api/friends/requests/{request_id}/reject
reject_friend_request(user, request_id) ==
    LET op == "reject_friend_request"
        found == GetFriendship(request_id)
    IN  IF found = {}
        THEN Reject(Reply(op, user, NoUser, 404, "Friend request not found"))
        ELSE LET friendship == CHOOSE r \in found : TRUE
             IN  IF friendship.friend_id # user
                 THEN Reject(Reply(op, user, friendship.user_id, 403, "This request is not for you"))
                 ELSE IF friendship.status # "pending"
                 THEN Reject(Reply(op, user, friendship.user_id, 400, "Request is not pending"))
                 ELSE /\ friendships' = friendships \ {friendship}
                      /\ resp' = Reply(op, user, friendship.user_id, 200, "Friend request rejected")
                      /\ UNCHANGED <<exceptFriends, nextFriendshipId>>

\* DELETE /api/friends/requests/{request_id}
cancel_friend_request(user, request_id) ==
    LET op == "cancel_friend_request"
        found == GetFriendship(request_id)
    IN  IF found = {}
        THEN Reject(Reply(op, user, NoUser, 404, "Friend request not found"))
        ELSE LET friendship == CHOOSE r \in found : TRUE
             IN  IF friendship.user_id # user
                 THEN Reject(Reply(op, user, friendship.friend_id, 403, "This is not your request"))
                 ELSE IF friendship.status # "pending"
                 THEN Reject(Reply(op, user, friendship.friend_id, 400, "Request is not pending"))
                 ELSE /\ friendships' = friendships \ {friendship}
                      /\ resp' = Reply(op, user, friendship.friend_id, 200, "Friend request cancelled")
                      /\ UNCHANGED <<exceptFriends, nextFriendshipId>>

(* ========================= direct friendship =========================== *)
\* database.add_friend: two rows with the column default status "accepted";
\* the commit raises IntegrityError when a foreign key is enforced and fails
AddFriendFails(user_id, friend_id) ==
    fk_enforced /\ (user_id \notin DOMAIN users \/ friend_id \notin DOMAIN users)

add_friend(op, user_id, friend_id) ==
    IF AddFriendFails(user_id, friend_id)
    THEN Reject(Reply(op, user_id, friend_id, 400, "Failed to add friend"))
    ELSE /\ nextFriendshipId + 1 <= MaxFriendshipId
         /\ friendships' = friendships \cup
                {Friendship(nextFriendshipId, user_id, friend_id, "accepted"),
                 Friendship(nextFriendshipId + 1, friend_id, user_id, "accepted")}
         /\ nextFriendshipId' = nextFriendshipId + 2
         /\ resp' = Reply(op, user_id, friend_id, 200, "Friend added successfully")
         /\ UNCHANGED exceptFriends

\* POST /api/friends/add-by-username
add_friend_by_username(user, data_username) ==
    LET op == "add_friend_by_username"
        username == Strip(data_username)
        friend == get_user_by_username(username)
    IN  IF username = <<>>
        THEN Reject(Reply(op, user, NoUser, 400, "Username is required"))
        ELSE IF friend = NoUser
        THEN Reject(Reply(op, user, NoUser, 404, "User not found"))
        ELSE IF friend = user
        THEN Reject(Reply(op, user, friend, 400, "Cannot add yourself as friend"))
        ELSE IF friend \in get_user_friends(user)
        THEN Reject(Reply(op, user, friend, 400, "Already friends with this user"))
        ELSE add_friend(op, user, friend)

\* POST /api/friends/{friend_id}
add_friend_endpoint(user, friend_id) ==
    LET op == "add_friend_endpoint"
    IN  IF friend_id = user
        THEN Reject(Reply(op, user, friend_id, 400, "Cannot add yourself as friend"))
        ELSE add_friend(op, user, friend_id)

\* database.remove_friend behind DELETE /api/friends/{friend_id}
remove_friend(user_id, friend_id) ==
    LET op == "remove_friend_endpoint"
        forward == RowsFromTo(friendships, user_id, friend_id)
        backward == RowsFromTo(friendships, friend_id, user_id)
    IN  IF forward = {}
        THEN Reject(Reply(op, user_id, friend_id, 404, "Friendship not found"))
        ELSE \E friendship \in forward :
                /\ IF backward \ {friendship} = {}
                   THEN friendships' = friendships \ {friendship}
                   ELSE \E reverse \in backward \ {friendship} :
                            friendships' = friendships \ {friendship, reverse}
                /\ resp' = Reply(op, user_id, friend_id, 200, "Friend removed successfully")
                /\ UNCHANGED <<exceptFriends, nextFriendshipId>>

remove_friend_endpoint(user, friend_id) == remove_friend(user, friend_id)

(* ============================ account ================================== *)
\* rows of other tables that carry a foreign key to users.id = user
Referenced(user) ==
    \/ \E r \in friendships : r.user_id = user \/ r.friend_id = user
    \/ \E m \in memberships : m.user_id = user
    \/ \E v \in poll_votes : v.user_id = user

\* PUT /api/user/settings; a field that is None in the body is "not given"
update_user_settings(user, show_given, show, allow_given, allow) ==
    /\ users' = [users EXCEPT
            ![user].show_listening_activity = IF show_given THEN show ELSE @,
            ![user].allow_friend_requests = IF allow_given THEN allow ELSE @]
    /\ resp' = Reply("update_user_settings", user, user, 200, "Settings updated successfully")
    /\ UNCHANGED <<exceptUsers, nextUserId>>

\* delete_account with the account's membership rows deleted along with it
delete_account_dropping_memberships(user) ==
    /\ users' = [i \in DOMAIN users \ {user} |-> users[i]]
    /\ memberships' = {m \in memberships : m.user_id # user}
    /\ resp' = Reply("delete_account", user, user, 200, "Account deleted successfully")
    /\ UNCHANGED <<vEnv, nextUserId, vFriends, communities, nextMembershipId,
                   vPolls, issued, vSpotify, vSong, vListening>>

\* DELETE /api/user/account: no cascade; an enforced foreign key makes the
\* commit raise, which surfaces as an unhandled server error
delete_account(user) ==
    IF fk_enforced /\ Referenced(user)
    THEN Reject(Reply("delete_account", user, user, 500, "IntegrityError"))
    ELSE /\ users' = [i \in DOMAIN users \ {user} |-> users[i]]
         /\ resp' = Reply("delete_account", user, user, 200, "Account deleted successfully")
         /\ UNCHANGED <<exceptUsers, nextUserId>>

(* ========================= initial store =============================== *)
NoReply == Reply("none", NoUser, NoUser, 0, "")
NoToken == [has_sub |-> FALSE, sub |-> <<>>, exp |-> 0, sig |-> "none"]
NoAccessToken == <<>>
NoEvent ==
    [kind |-> "none", user_id |-> NoUser, token |-> NoAccessToken, outbound |-> 0, ttl |-> 0,
     new_refresh_token |-> NULL]
NoAuth == [status |-> 0, user |-> NoUser, token |-> NoToken]

Community(name, count) == [name |-> name, member_count |-> count]
Poll(community_id, active) == [community_id |-> community_id, is_active |-> active]
PollOption(poll_id, n) == [poll_id |-> poll_id, votes |-> n]

\* seed_data.seed_communities
seed_communities ==
    <<Community("Indie Lovers", 128), Community("Lo-Fi Chill", 256),
      Community("Hip-Hop Heads", 342), Community("Electronic Music", 189)>>

\* seed_data.seed_polls
seed_polls == <<Poll(1, TRUE)>>

\* seed_data.seed_poll_options
seed_poll_options ==
    <<PollOption(1, 24), PollOption(1, 31), PollOption(1, 18), PollOption(1, 15)>>

\* the tables after run_seed and one generate_weekly_polls call in which the
\* provider returned two tracks for "pop" and nothing for the other genres:
\* community 5 "Pop Fans" (member_count 0) with poll 2 and options 5, 6
InitCatalog ==
    /\ communities = Append(seed_communities, Community("Pop Fans", 0))
    /\ memberships = {}
    /\ nextMembershipId = 1
    /\ polls = Append(seed_polls, Poll(5, TRUE))
    /\ options = seed_poll_options \o <<PollOption(2, 0), PollOption(2, 0)>>
    /\ poll_votes = {}
    /\ nextVoteId = 1

\* two registered accounts "a" and "b"
InitTwoUsers ==
    /\ users = [i \in {1, 2} |-> Users(IF i = 1 THEN <<"a">> ELSE <<"b">>, Hash(PwShort))]
    /\ nextUserId = 3

\* the value _load_song_of_day_cache returns when the file gives nothing
\* (dates are one-element tuples, None is the empty one)
NoDate == <<>>

EmptySongCache == [track |-> NULL, date |-> NoDate]

\* song_of_day_cache.json does not exist; a file is <<content>>
NoFile == <<>>

\* the in-memory caches of a process started for the first time
InitNoSpotify ==
    /\ access_token_cache = <<>>
    /\ inflight = <<>>
    /\ token_event = NoEvent
    /\ refreshed_at = <<>>
    /\ song_of_day_cache = EmptySongCache
    /\ song_of_day_file = NoFile
    /\ song_cached_for = <<>>

InitNoSession ==
    /\ listening_activity = <<>>
    /\ issued = {}
    /\ auth = NoAuth
    /\ resp = NoReply

(* ===================== specification: friends ========================== *)
\* the friend handlers, called by authenticated users
InitFriends ==
    /\ fk_enforced \in BOOLEAN
    /\ client_id_configured = TRUE
    /\ now = 0
    /\ InitTwoUsers
    /\ friendships = {}
    /\ nextFriendshipId = 1
    /\ InitCatalog
    /\ InitNoSpotify
    /\ InitNoSession

SendFriendRequestByUsername ==
    \E user \in DOMAIN users, name \in UsernameInputs :
        send_friend_request_by_username(user, name) /\ UNCHANGED trace
SendFriendRequest ==
    \E user \in DOMAIN users, id \in UserIdInputs :
        send_friend_request(user, id) /\ UNCHANGED trace
AcceptFriendRequest ==
    \E user \in DOMAIN users, id \in RequestIdInputs :
        accept_friend_request(user, id) /\ UNCHANGED trace
RejectFriendRequest ==
    \E user \in DOMAIN users, id \in RequestIdInputs :
        reject_friend_request(user, id) /\ UNCHANGED trace
CancelFriendRequest ==
    \E user \in DOMAIN users, id \in RequestIdInputs :
        cancel_friend_request(user, id) /\ UNCHANGED trace
AddFriendByUsername ==
    \E user \in DOMAIN users, name \in UsernameInputs :
        add_friend_by_username(user, name) /\ UNCHANGED trace
AddFriendEndpoint ==
    \E user \in DOMAIN users, id \in UserIdInputs :
        add_friend_endpoint(user, id) /\ UNCHANGED trace
RemoveFriendEndpoint ==
    \E user \in DOMAIN users, id \in UserIdInputs :
        remove_friend_endpoint(user, id) /\ UNCHANGED trace
UpdateUserSettings ==
    \E user \in DOMAIN users, given, allow \in BOOLEAN :
        update_user_settings(user, FALSE, FALSE, given, allow) /\ UNCHANGED trace
DeleteAccount ==
    \E user \in DOMAIN users :
        delete_account(user) /\ UNCHANGED trace

NextFriends ==
    \/ SendFriendRequestByUsername
    \/ SendFriendRequest
    \/ AcceptFriendRequest
    \/ RejectFriendRequest
    \/ CancelFriendRequest
    \/ AddFriendByUsername
    \/ AddFriendEndpoint
    \/ RemoveFriendEndpoint
    \/ UpdateUserSettings
    \/ DeleteAccount

SpecFriends == InitFriends /\ [][NextFriends]_vars

(* ============================== polls ================================== *)
PollIdInputs == {1, 2, 3}
OptionIdInputs == {1, 2, 5, 7}

ExistingVotes(pv, user_id, poll_id) ==
    {v \in pv : v.user_id = user_id /\ v.poll_id = poll_id}

PollVote(id, poll_id, user_id, option_id) ==
    [id |-> id, poll_id |-> poll_id, user_id |-> user_id, option_id |-> option_id]

\* the commit of vote_on_poll raises IntegrityError when an enforced foreign
\* key of the written pollvote row names no row
VoteFails(user_id, poll_id, option_id) ==
    fk_enforced /\ (\/ user_id \notin DOMAIN users
                    \/ poll_id \notin DOMAIN polls
                    \/ option_id \notin DOMAIN options)

\* lines 249-252: the tally of the option the existing vote names goes down
DecrementOld(opts, old) ==
    IF old \in DOMAIN opts THEN [opts EXCEPT ![old].votes = @ - 1] ELSE opts

\* lines 262-265: the tally of the requested option goes up
IncrementNew(opts, option_id) ==
    IF option_id \in DOMAIN opts THEN [opts EXCEPT ![option_id].votes = @ + 1] ELSE opts

\* vote_on_poll without the lookup of the existing vote: every vote inserts
vote_on_poll_always_insert(user_id, poll_id, option_id) ==
    LET op == "vote_on_poll_endpoint"
    IN  IF VoteFails(user_id, poll_id, option_id)
        THEN Reject(ReplyArg(op, user_id, poll_id, option_id, 400, "Failed to vote"))
        ELSE /\ nextVoteId <= MaxVoteId
             /\ options' = IncrementNew(options, option_id)
             /\ poll_votes' = poll_votes \cup
                    {PollVote(nextVoteId, poll_id, user_id, option_id)}
             /\ nextVoteId' = nextVoteId + 1
             /\ resp' = ReplyArg(op, user_id, poll_id, option_id, 200,
                                 "Vote recorded successfully")
             /\ UNCHANGED <<exceptPolls, polls>>

\* database.vote_on_poll behind POST /api/polls/{poll_id}/vote
vote_on_poll(user_id, poll_id, option_id) ==
    LET op == "vote_on_poll_endpoint"
        existing == ExistingVotes(poll_votes, user_id, poll_id)
    IN  IF VoteFails(user_id, poll_id, option_id)
        THEN Reject(ReplyArg(op, user_id, poll_id, option_id, 400, "Failed to vote"))
        ELSE /\ IF existing # {}
                THEN \E existing_vote \in existing :
                        /\ options' = IncrementNew(
                                DecrementOld(options, existing_vote.option_id), option_id)
                        /\ poll_votes' = (poll_votes \ {existing_vote}) \cup
                                {[existing_vote EXCEPT !.option_id = option_id]}
                        /\ UNCHANGED nextVoteId
                ELSE /\ nextVoteId <= MaxVoteId
                     /\ options' = IncrementNew(options, option_id)
                     /\ poll_votes' = poll_votes \cup
                            {PollVote(nextVoteId, poll_id, user_id, option_id)}
                     /\ nextVoteId' = nextVoteId + 1
             /\ resp' = ReplyArg(op, user_id, poll_id, option_id, 200,
                                 "Vote recorded successfully")
             /\ UNCHANGED <<exceptPolls, polls>>

vote_on_poll_endpoint(user, poll_id, option_id) == vote_on_poll(user, poll_id, option_id)

(* ====================== specification: polls =========================== *)
InitPolls == InitFriends

VoteOnPoll ==
    \E user \in DOMAIN users, poll_id \in PollIdInputs, option_id \in OptionIdInputs :
        vote_on_poll_endpoint(user, poll_id, option_id) /\ UNCHANGED trace

NextPolls ==
    \/ VoteOnPoll
    \/ DeleteAccount

SpecPolls == InitPolls /\ [][NextPolls]_vars

(* ========================== claims: polls ============================== *)
RECURSIVE SumVotes(_, _)
SumVotes(opts, ids) ==
    IF ids = {} THEN 0
    ELSE LET i == CHOOSE x \in ids : TRUE
         IN  opts[i].votes + SumVotes(opts, ids \ {i})

\* the sum of votes over the options of poll P
PollTally(opts, P) == SumVotes(opts, {i \in DOMAIN opts : opts[i].poll_id = P})

\* C2: when a user who already has a vote on poll P votes again on P with an
\* option id the operation accepts, the previously chosen option's votes goes
\* down by exactly 1, the newly chosen one's goes up by exactly 1 and the sum
\* over the options of P is unchanged; re-voting for the same option leaves
\* every tally unchanged.
C2_RevoteMovesOneVote ==
    [][(resp'.op = "vote_on_poll_endpoint" /\ resp'.status = 200) =>
          \A e \in ExistingVotes(poll_votes, resp'.caller, resp'.target) :
              LET old == e.option_id
                  new == resp'.arg
              IN  IF old = new
                  THEN options' = options
                  ELSE /\ old \in DOMAIN options /\ new \in DOMAIN options
                       /\ options'[old].votes = options[old].votes - 1
                       /\ options'[new].votes = options[new].votes + 1
                       /\ PollTally(options', resp'.target) = PollTally(options, resp'.target)]_vars

(* =========================== communities =============================== *)
CommunityIdInputs == {1, 5, 6}

CommunityMembership(id, user_id, community_id) ==
    [id |-> id, user_id |-> user_id, community_id |-> community_id]

MembershipsOf(ms, user_id, community_id) ==
    {m \in ms : m.user_id = user_id /\ m.community_id = community_id}

\* join_community with the counter update of lines 189-195 left out
join_community_without_count(op, user_id, community_id) ==
    /\ nextMembershipId <= MaxMembershipId
    /\ memberships' = memberships \cup
            {CommunityMembership(nextMembershipId, user_id, community_id)}
    /\ nextMembershipId' = nextMembershipId + 1
    /\ UNCHANGED communities
    /\ resp' = Reply(op, user_id, community_id, 200, "Joined community successfully")
    /\ UNCHANGED exceptCommunities

\* database.join_community: insert the membership row, commit, then
\* increment member_count of the community (if it exists) and commit
join_community(op, user_id, community_id) ==
    /\ nextMembershipId <= MaxMembershipId
    /\ memberships' = memberships \cup
            {CommunityMembership(nextMembershipId, user_id, community_id)}
    /\ nextMembershipId' = nextMembershipId + 1
    /\ communities' =
            IF community_id \in DOMAIN communities
            THEN [communities EXCEPT ![community_id].member_count = @ + 1]
            ELSE communities
    /\ resp' = Reply(op, user_id, community_id, 200, "Joined community successfully")
    /\ UNCHANGED exceptCommunities

\* the join handler with the "already a member" lookup left out
join_community_endpoint_without_lookup(user, community_id) ==
    LET op == "join_community_endpoint"
    IN  IF community_id \notin DOMAIN communities
        THEN Reject(Reply(op, user, community_id, 404, "Community not found"))
        ELSE join_community(op, user, community_id)

\* POST /api/communities/{community_id}/join
join_community_endpoint(user, community_id) ==
    LET op == "join_community_endpoint"
    IN  IF community_id \notin DOMAIN communities
        THEN Reject(Reply(op, user, community_id, 404, "Community not found"))
        ELSE IF MembershipsOf(memberships, user, community_id) # {}
        THEN Reject(Reply(op, user, community_id, 400, "Already a member of this community"))
        ELSE join_community(op, user, community_id)

Max(a, b) == IF a >= b THEN a ELSE b

\* database.leave_community: delete the first membership row and lower
\* member_count, not below 0, in one commit
leave_community(op, user_id, community_id) ==
    LET found == MembershipsOf(memberships, user_id, community_id)
    IN  IF found = {}
        THEN Reject(Reply(op, user_id, community_id, 404, "Membership not found or not a member"))
        ELSE \E membership \in found :
                /\ memberships' = memberships \ {membership}
                /\ communities' =
                        IF community_id \in DOMAIN communities
                        THEN [communities EXCEPT ![community_id].member_count = Max(0, @ - 1)]
                        ELSE communities
                /\ resp' = Reply(op, user_id, community_id, 200, "Left community successfully")
                /\ UNCHANGED <<exceptCommunities, nextMembershipId>>

\* DELETE /api/communities/{community_id}/leave
leave_community_endpoint(user, community_id) ==
    leave_community("leave_community_endpoint", user, community_id)

(* =================== specification: communities ======================== *)
InitCommunity == InitFriends

JoinCommunity ==
    \E user \in DOMAIN users, community_id \in CommunityIdInputs :
        join_community_endpoint(user, community_id) /\ UNCHANGED trace

LeaveCommunity ==
    \E user \in DOMAIN users, community_id \in CommunityIdInputs :
        leave_community_endpoint(user, community_id) /\ UNCHANGED trace

NextCommunity ==
    \/ JoinCommunity
    \/ LeaveCommunity
    \/ DeleteAccount

SpecCommunity == InitCommunity /\ [][NextCommunity]_vars

(* ======================= claims: communities =========================== *)
IsCommunityOp(r) == r.op \in {"join_community_endpoint", "leave_community_endpoint"}

CountStep(c, d) ==
    /\ c \in DOMAIN communities
    /\ communities' = [communities EXCEPT ![c].member_count = @ + d]

PasswordTooLong(password) == Utf8Len(password) > BCRYPT_MAX_PASSWORD_BYTES

\* create_access_token: `if expires_delta:` is false for None and for a zero
\* timedelta, and the default lifetime is used then
create_access_token(sub, has_delta, expires_delta) ==
    LET expire == IF has_delta /\ expires_delta # 0
                  THEN now + expires_delta
                  ELSE now + ACCESS_TOKEN_EXPIRE_MINUTES * 60
    IN  [has_sub |-> TRUE, sub |-> sub, exp |-> expire, sig |-> "valid"]

Verdict(status, user, detail) == [status |-> status, user |-> user, detail |-> detail]

\* get_current_user without the expiry check of jwt.decode
get_current_user_no_expiry(token) ==
    IF token.sig # "valid" \/ ~token.has_sub
    THEN Verdict(401, NoUser, "Could not validate credentials")
    ELSE IF get_user_by_username(token.sub) = NoUser
    THEN Verdict(400, NoUser, "User not found")
    ELSE Verdict(200, get_user_by_username(token.sub), "")

\* get_current_user: jwt.decode checks the signature, then exp; a payload
\* without "sub" raises the credentials exception; an unknown subject
\* raises 400
get_current_user(token) ==
    IF token.sig # "valid" \/ token.exp <= now \/ ~token.has_sub
    THEN Verdict(401, NoUser, "Could not validate credentials")
    ELSE IF get_user_by_username(token.sub) = NoUser
    THEN Verdict(400, NoUser, "User not found")
    ELSE Verdict(200, get_user_by_username(token.sub), "")

\* database.add_user: the unique index on username makes the commit raise
AddUserFails(username) == \E i \in DOMAIN users : users[i].username = username

Issue(by, token, delta) == [by |-> by, token |-> token, iat |-> now, delta |-> delta]

RegisterData(username, password) == [username |-> username, password |-> password]

\* register without the lookup of the existing user
register_without_lookup(username, password) ==
    LET op == "register"
        data == RegisterData(username, password)
    IN  IF PasswordTooLong(password)
        THEN Reject(ReplyArg(op, NoUser, NoUser, data, 400, "Password too long"))
        ELSE IF AddUserFails(username)
        THEN Reject(ReplyArg(op, NoUser, NoUser, data, 500, "User registration failed"))
        ELSE LET access_token == create_access_token(username, TRUE,
                                        ACCESS_TOKEN_EXPIRE_MINUTES * 60)
             IN  /\ nextUserId <= MaxUserId
                 /\ Cardinality(issued) < MaxIssued
                 /\ users' = [i \in DOMAIN users \cup {nextUserId} |->
                                IF i = nextUserId
                                THEN Users(username, Hash(password)) ELSE users[i]]
                 /\ nextUserId' = nextUserId + 1
                 /\ issued' = issued \cup
                        {Issue(op, access_token, ACCESS_TOKEN_EXPIRE_MINUTES * 60)}
                 /\ resp' = ReplyArg(op, nextUserId, nextUserId, data, 200, "bearer")
                 /\ UNCHANGED <<vEnv, vFriends, vCommunities, vPolls, vSpotify, vSong, vListening>>

\* POST /api/register
register(username, password) ==
    LET op == "register"
        data == RegisterData(username, password)
        existing_user == get_user_by_username(username)
    IN  IF PasswordTooLong(password)
        THEN Reject(ReplyArg(op, NoUser, NoUser, data, 400, "Password too long"))
        ELSE IF existing_user # NoUser
        THEN Reject(ReplyArg(op, NoUser, existing_user, data, 409, "User already exists"))
        ELSE IF AddUserFails(username)
        THEN Reject(ReplyArg(op, NoUser, NoUser, data, 500, "User registration failed"))
        ELSE LET access_token == create_access_token(username, TRUE,
                                        ACCESS_TOKEN_EXPIRE_MINUTES * 60)
             IN  /\ nextUserId <= MaxUserId
                 /\ Cardinality(issued) < MaxIssued
                 /\ users' = [i \in DOMAIN users \cup {nextUserId} |->
                                IF i = nextUserId
                                THEN Users(username, Hash(password)) ELSE users[i]]
                 /\ nextUserId' = nextUserId + 1
                 /\ issued' = issued \cup
                        {Issue(op, access_token, ACCESS_TOKEN_EXPIRE_MINUTES * 60)}
                 /\ resp' = ReplyArg(op, nextUserId, nextUserId, data, 200, "bearer")
                 /\ UNCHANGED <<vEnv, vFriends, vCommunities, vPolls, vSpotify, vSong, vListening>>

\* login telling an unknown username from a wrong password
login_naming_unknown_user(username, password) ==
    LET op == "login"
        data == RegisterData(username, password)
        user == get_user_by_username(username)
    IN  IF PasswordTooLong(password)
        THEN Reject(ReplyArg(op, NoUser, NoUser, data, 400, "Password too long"))
        ELSE IF user = NoUser
        THEN Reject(ReplyArg(op, NoUser, NoUser, data, 404, "User not found"))
        ELSE IF ~Verify(password, users[user].password_hash)
        THEN Reject(ReplyArg(op, NoUser, NoUser, data, 400, "Incorrect username or password"))
        ELSE LET token == create_access_token(users[user].username, TRUE,
                                ACCESS_TOKEN_EXPIRE_MINUTES * 60)
             IN  /\ Cardinality(issued \cup
                        {Issue(op, token, ACCESS_TOKEN_EXPIRE_MINUTES * 60)}) <= MaxIssued
                 /\ issued' = issued \cup
                        {Issue(op, token, ACCESS_TOKEN_EXPIRE_MINUTES * 60)}
                 /\ resp' = ReplyArg(op, user, user, data, 200, "bearer")
                 /\ UNCHANGED <<vEnv, vUsers, vFriends, vCommunities, vPolls, vSpotify, vSong, vListening>>

\* POST /api/login
login(username, password) ==
    LET op == "login"
        data == RegisterData(username, password)
        user == get_user_by_username(username)
    IN  IF PasswordTooLong(password)
        THEN Reject(ReplyArg(op, NoUser, NoUser, data, 400, "Password too long"))
        ELSE IF user = NoUser \/ ~Verify(password, users[user].password_hash)
        THEN Reject(ReplyArg(op, NoUser, NoUser, data, 400, "Incorrect username or password"))
        ELSE LET token == create_access_token(users[user].username, TRUE,
                                ACCESS_TOKEN_EXPIRE_MINUTES * 60)
             IN  /\ Cardinality(issued \cup
                        {Issue(op, token, ACCESS_TOKEN_EXPIRE_MINUTES * 60)}) <= MaxIssued
                 /\ issued' = issued \cup
                        {Issue(op, token, ACCESS_TOKEN_EXPIRE_MINUTES * 60)}
                 /\ resp' = ReplyArg(op, user, user, data, 200, "bearer")
                 /\ UNCHANGED <<vEnv, vUsers, vFriends, vCommunities, vPolls, vSpotify, vSong, vListening>>

\* GET /api/user/settings
get_user_settings(user) ==
    /\ resp' = Reply("get_user_settings", user, user, 200, "settings")
    /\ UNCHANGED store

(* ================== specification: session issuer ====================== *)
RegisterNames == {<<"a">>, <<"b">>}

\* the bearer tokens a caller can present: the issued ones, the same with a
\* broken signature, and a signed payload that carries no "sub"
TokenInputs ==
    {i.token : i \in issued}
        \cup {[i.token EXCEPT !.sig = "invalid"] : i \in issued}
        \cup {[has_sub |-> FALSE, sub |-> <<>>, exp |-> MaxNow + TickStep, sig |-> "valid"]}

ProtectedOps == {"get_user_settings", "delete_account"}

\* Depends(get_current_user): the handler body runs only with a resolved user
Unauthenticated(op, token) ==
    LET v == get_current_user(token)
    IN  /\ v.status # 200
        /\ auth' = [status |-> v.status, user |-> NoUser, token |-> token]
        /\ UNCHANGED token_event
        /\ Reject(Reply(op, NoUser, NoUser, v.status, v.detail))

Authenticated(token) ==
    LET v == get_current_user(token)
    IN  /\ v.status = 200
        /\ auth' = [status |-> 200, user |-> v.user, token |-> token]
        /\ UNCHANGED token_event

InitAuth ==
    /\ fk_enforced = TRUE
    /\ client_id_configured = TRUE
    /\ now = 0
    /\ users = <<>>
    /\ nextUserId = 1
    /\ friendships = {}
    /\ nextFriendshipId = 1
    /\ InitCatalog
    /\ InitNoSpotify
    /\ InitNoSession

Register ==
    \E username \in RegisterNames, password \in {PwShort, PwLong} :
        register(username, password) /\ auth' = NoAuth /\ UNCHANGED token_event

Login ==
    \E username \in RegisterNames, password \in PasswordInputs :
        login(username, password) /\ auth' = NoAuth /\ UNCHANGED token_event

RejectBearer ==
    \E token \in TokenInputs, op \in ProtectedOps : Unauthenticated(op, token)

GetUserSettingsWithBearer ==
    \E token \in TokenInputs :
        Authenticated(token) /\ get_user_settings(get_current_user(token).user)

DeleteAccountWithBearer ==
    \E token \in TokenInputs :
        Authenticated(token) /\ delete_account(get_current_user(token).user)

\* time passes between two requests; resp and auth describe the handler of
\* the last step, and no handler ran in this one
Tick ==
    /\ now + TickStep <= MaxNow
    /\ now' = now + TickStep
    /\ resp' = NoReply
    /\ auth' = NoAuth
    /\ UNCHANGED <<fk_enforced, client_id_configured, vUsers, vFriends, vCommunities,
                   vPolls, issued, vSpotify, vSong, vListening, token_event>>

NextAuth ==
    \/ Register
    \/ Login
    \/ RejectBearer
    \/ GetUserSettingsWithBearer
    \/ DeleteAccountWithBearer
    \/ Tick

SpecAuth == InitAuth /\ [][NextAuth]_vars

(* ====================== claims: session issuer ========================= *)
UsernamesUnique ==
    \A i, j \in DOMAIN users : users[i].username = users[j].username => i = j

AcceptableRegister(r) == r.op = "register" /\ ~PasswordTooLong(r.arg.password)

RegisteredBefore(username) ==
    \E i \in issued : i.by = "register" /\ i.token.sub = username

\* C5: once a register call with a username has succeeded, every later
\* register call with that username (password of acceptable length) is
\* answered 409, creates no user row and issues no token; usernames are
\* unique in every reachable state.
C5_SecondRegisterConflicts ==
    /\ []UsernamesUnique
    /\ [][(AcceptableRegister(resp') /\ RegisteredBefore(resp'.arg.username)) =>
            (resp'.status = 409 /\ users' = users /\ issued' = issued)]_vars

\* C5 as amended: the conflict is answered while a user row with that
\* username exists (after delete_account the name is free again).
C5_RegisterOfExistingNameConflicts ==
    /\ []UsernamesUnique
    /\ [][(AcceptableRegister(resp') /\ get_user_by_username(resp'.arg.username) # NoUser) =>
            (resp'.status = 409 /\ users' = users /\ issued' = issued)]_vars

C5_Witness ==
    /\ AcceptableRegister(resp)
    /\ resp.status = 409
    /\ RegisteredBefore(resp.arg.username)

\* C6: a token created at time t with expiry delta d for an existing user is
\* accepted by get_current_user at every time before t + d and rejected as
\* unauthorized (401) at every time after t + d; an accepted token resolves
\* to the user named by its subject.
C6_TokenAcceptedUntilExpiry ==
    \A i \in issued :
        LET v == get_current_user(i.token)
        IN  /\ (now < i.iat + i.delta /\ get_user_by_username(i.token.sub) # NoUser)
                    => v.status = 200
            /\ now > i.iat + i.delta => v.status = 401
            /\ v.status = 200 => users[v.user].username = i.token.sub

C6_Witness ==
    /\ resp.op \in ProtectedOps
    /\ resp.status = 401
    /\ \E i \in issued : auth.token = i.token /\ now > i.iat + i.delta
    /\ get_user_by_username(auth.token.sub) # NoUser

VerificationFails(token) ==
    \/ token.sig # "valid"
    \/ token.exp <= now
    \/ ~token.has_sub
    \/ get_user_by_username(token.sub) = NoUser

\* C7: get_current_user reports every verification failure (bad signature,
\* expired, no subject, subject naming no existing user) as 401, and the
\* protected handler body does not run.
C7_EveryFailureIsUnauthorized ==
    [][(resp'.op \in ProtectedOps /\ VerificationFails(auth'.token)) =>
          (resp'.status = 401 /\ UNCHANGED store)]_vars

(* ====================== Spotify access tokens ========================== *)
\* `if not user.spotify_refresh_token`: None and "" are both "not linked"
Falsy(refresh_token) == refresh_token \in {NULL, ""}

RefreshTokenInputs == {"", "rt1", "rt2"}

\* what the token endpoint may answer: status, "access_token" present,
\* "expires_in" present and its value, "refresh_token" (NULL when absent),
\* and the status of the data request made with the token; a status of
\* NetworkError stands for the HTTP client raising instead of answering
NetworkError == 0

DataStatuses == {200, 500, NetworkError}
ProviderResponse(status, has_access, has_expires, expires_in, new_refresh_token, data_status) ==
    [status |-> status, has_access |-> has_access, has_expires |-> has_expires,
     expires_in |-> expires_in, new_refresh_token |-> new_refresh_token,
     data_status |-> data_status]

ProviderResponses ==
    {ProviderResponse(400, FALSE, FALSE, 0, NULL, 500),
     ProviderResponse(NetworkError, FALSE, FALSE, 0, NULL, 500),
     ProviderResponse(200, FALSE, FALSE, 0, NULL, 500),
     ProviderResponse(200, TRUE, TRUE, 300, NULL, 200),
     ProviderResponse(200, TRUE, TRUE, 700, NULL, 200),
     ProviderResponse(200, TRUE, TRUE, 700, "rt2", 200),
     ProviderResponse(200, TRUE, TRUE, 700, NULL, NetworkError),
     ProviderResponse(200, TRUE, FALSE, 0, NULL, 200),
     ProviderResponse(200, TRUE, FALSE, 0, "rt2", 500)}

\* the access token the provider hands out for a refresh token at some time
AccessToken(refresh_token, at) == <<refresh_token, at>>

CacheEntry(token, expiry) == [token |-> token, expiry |-> expiry]

\* what one step of get_spotify_access_token did: "cached", "unconfigured"
\* or "outbound" (one POST sent) when called, "refreshed", "empty" or
\* "failed" when the provider answered; ttl is the lifetime it cached
\* new_refresh_token is the "refresh_token" of the answer (NULL when absent)
EventAnswer(kind, user_id, token, ttl, new_refresh_token) ==
    [kind |-> kind, user_id |-> user_id, token |-> token, outbound |-> 0,
     ttl |-> ttl, new_refresh_token |-> new_refresh_token]

Event(kind, user_id, token, outbound) ==
    [kind |-> kind, user_id |-> user_id, token |-> token, outbound |-> outbound,
     ttl |-> 0, new_refresh_token |-> NULL]

\* the cache test without the five-minute buffer
CacheValidWithoutBuffer(user_id) ==
    /\ user_id \in DOMAIN access_token_cache
    /\ now < access_token_cache[user_id].expiry

\* main.py 1032-1038: a cached token is used while now < expiry - 300
CacheValid(user_id) ==
    /\ user_id \in DOMAIN access_token_cache
    /\ now < access_token_cache[user_id].expiry - CACHE_BUFFER_SECONDS

Put(f, k, v) == [x \in DOMAIN f \cup {k} |-> IF x = k THEN v ELSE f[x]]
Drop(f, k) == [x \in DOMAIN f \ {k} |-> f[x]]

\* the rest of get_user_top_tracks once it holds an access token or None:
\* no token -> "please reconnect"; else the data request: answered 200,
\* answered otherwise, or raising out of the handler (no try around it),
\* which the framework turns into a 500
TopTracksReply(op, caller, user_id, access_token, data_status) ==
    IF access_token = NoAccessToken
    THEN Reply(op, caller, user_id, 200, "Spotify access expired - please reconnect")
    ELSE IF data_status = NetworkError
    THEN Reply(op, caller, user_id, 500, "Internal Server Error")
    ELSE IF data_status = 200
    THEN Reply(op, caller, user_id, 200, "tracks")
    ELSE Reply(op, caller, user_id, 200, "Spotify API error")

\* the handler with one refresh per user at a time: a call that finds a
\* refresh for the same user under way sends none of its own
get_user_top_tracks_start_one_refresh_per_user(caller, user_id, slot, data_status) ==
    LET op == "get_user_top_tracks"
    IN  IF user_id \notin DOMAIN users
        THEN /\ Reject(Reply(op, caller, user_id, 404, "User not found"))
             /\ token_event' = NoEvent
        ELSE IF Falsy(users[user_id].spotify_refresh_token)
        THEN /\ Reject(Reply(op, caller, user_id, 200, "User has not linked Spotify"))
             /\ token_event' = NoEvent
        ELSE IF CacheValid(user_id)
        THEN /\ token_event' = Event("cached", user_id, access_token_cache[user_id].token, 0)
             /\ resp' = TopTracksReply(op, caller, user_id,
                                       access_token_cache[user_id].token, data_status)
             /\ UNCHANGED store
        ELSE IF ~client_id_configured \/ \E s \in DOMAIN inflight : inflight[s].user_id = user_id
        THEN /\ token_event' = Event("unconfigured", user_id, NoAccessToken, 0)
             /\ resp' = TopTracksReply(op, caller, user_id, NoAccessToken, data_status)
             /\ UNCHANGED store
        ELSE /\ slot \notin DOMAIN inflight
             /\ inflight' = Put(inflight, slot,
                    [caller |-> caller, user_id |-> user_id,
                     refresh_token |-> users[user_id].spotify_refresh_token])
             /\ token_event' = Event("outbound", user_id, NoAccessToken, 1)
             /\ resp' = Reply(op, caller, user_id, 0, "awaiting provider")
             /\ UNCHANGED <<vEnv, vUsers, vFriends, vCommunities, vPolls, issued,
                            access_token_cache, refreshed_at, vSong, vListening>>

\* GET /api/users/{user_id}/top-tracks up to the first await of
\* get_spotify_access_token (main.py 1094-1101, 1032-1057)
get_user_top_tracks_start(caller, user_id, slot, data_status) ==
    LET op == "get_user_top_tracks"
    IN  IF user_id \notin DOMAIN users
        THEN /\ Reject(Reply(op, caller, user_id, 404, "User not found"))
             /\ token_event' = NoEvent
        ELSE IF Falsy(users[user_id].spotify_refresh_token)
        THEN /\ Reject(Reply(op, caller, user_id, 200, "User has not linked Spotify"))
             /\ token_event' = NoEvent
        ELSE IF CacheValid(user_id)
        THEN /\ token_event' = Event("cached", user_id, access_token_cache[user_id].token, 0)
             /\ resp' = TopTracksReply(op, caller, user_id,
                                       access_token_cache[user_id].token, data_status)
             /\ UNCHANGED store
        ELSE IF ~client_id_configured
        THEN /\ token_event' = Event("unconfigured", user_id, NoAccessToken, 0)
             /\ resp' = TopTracksReply(op, caller, user_id, NoAccessToken, data_status)
             /\ UNCHANGED store
        ELSE /\ slot \notin DOMAIN inflight
             /\ inflight' = Put(inflight, slot,
                    [caller |-> caller, user_id |-> user_id,
                     refresh_token |-> users[user_id].spotify_refresh_token])
             /\ token_event' = Event("outbound", user_id, NoAccessToken, 1)
             /\ resp' = Reply(op, caller, user_id, 0, "awaiting provider")
             /\ UNCHANGED <<vEnv, vUsers, vFriends, vCommunities, vPolls, issued,
                            access_token_cache, refreshed_at, vSong, vListening>>

\* lines 1069-1079 with the rotated refresh token thrown away
KeepStoredRefreshToken(user_id, new_refresh_token) == users' = users

\* main.py 1069-1079: a refresh token in the answer replaces the stored one
StoreRotatedRefreshToken(user_id, new_refresh_token) ==
    users' = IF ~Falsy(new_refresh_token) /\ user_id \in DOMAIN users
             THEN [users EXCEPT ![user_id].spotify_refresh_token = new_refresh_token]
             ELSE users

\* the failure branch clearing the stored credential and the cache entry
ProviderRejectedClearingToken(user_id) ==
    /\ users' = IF user_id \in DOMAIN users
                THEN [users EXCEPT ![user_id].spotify_refresh_token = NULL]
                ELSE users
    /\ access_token_cache' = Drop(access_token_cache, user_id)
    /\ UNCHANGED refreshed_at

\* main.py 1082-1089: a non-200 answer changes nothing and None is returned
ProviderRejected(user_id) ==
    UNCHANGED <<access_token_cache, refreshed_at, users>>

\* the provider's answer reaches get_spotify_access_token (main.py 1058-1089)
\* and get_user_top_tracks finishes (1102-1127); when client.post raises,
\* nothing catches it and the request ends as a 500
get_user_top_tracks_resume(slot, status, has_access, has_expires, expires_in, new_refresh_token, data_status) ==
    LET op == "get_user_top_tracks"
        call == inflight[slot]
        user_id == call.user_id
        access_token == IF status = 200 /\ has_access
                        THEN AccessToken(call.refresh_token, now) ELSE NoAccessToken
        ttl == IF has_expires THEN expires_in ELSE DEFAULT_EXPIRES_IN
    IN  /\ slot \in DOMAIN inflight
        /\ inflight' = Drop(inflight, slot)
        /\ IF status = 200
           THEN /\ access_token_cache' =
                      IF access_token # NoAccessToken
                      THEN Put(access_token_cache, user_id, CacheEntry(access_token, now + ttl))
                      ELSE access_token_cache
                /\ refreshed_at' =
                      IF access_token # NoAccessToken
                      THEN Put(refreshed_at, user_id, now) ELSE refreshed_at
                /\ StoreRotatedRefreshToken(user_id, new_refresh_token)
                /\ token_event' =
                      IF access_token # NoAccessToken
                      THEN EventAnswer("refreshed", user_id, access_token, ttl, new_refresh_token)
                      ELSE EventAnswer("empty", user_id, access_token, 0, new_refresh_token)
           ELSE /\ ProviderRejected(user_id)
                /\ token_event' = Event(IF status = NetworkError THEN "raised" ELSE "failed",
                                        user_id, NoAccessToken, 0)
        /\ resp' = IF status = NetworkError
                   THEN Reply(op, call.caller, user_id, 500, "Internal Server Error")
                   ELSE TopTracksReply(op, call.caller, user_id, access_token, data_status)
        /\ UNCHANGED <<vEnv, nextUserId, vFriends, vCommunities, vPolls, issued, vSong, vListening>>

\* PUT /api/link_spotify
link_spotify(user, spotify_refresh_token) ==
    /\ users' = [users EXCEPT ![user].spotify_refresh_token = spotify_refresh_token]
    /\ resp' = Reply("link_spotify", user, user, 200, "Spotify account linked successfully")
    /\ UNCHANGED <<exceptUsers, nextUserId>>

\* POST /api/disconnect_spotify: the cache entry, the stored refresh token
\* and the user's listening activity rows are removed
disconnect_spotify(user) ==
    /\ access_token_cache' = Drop(access_token_cache, user)
    /\ users' = [users EXCEPT ![user].spotify_refresh_token = NULL]
    /\ listening_activity' = Drop(listening_activity, user)
    /\ resp' = Reply("disconnect_spotify", user, user, 200,
                     "Spotify account disconnected successfully")
    /\ UNCHANGED <<vEnv, nextUserId, vFriends, vCommunities, vPolls, issued,
                   inflight, refreshed_at, vSong>>

(* ================ specification: Spotify access tokens ================= *)
SpotifyUserInputs == {1, 3}
SpotifyAccountHolders == {1}

InitSpotify ==
    /\ fk_enforced = TRUE
    /\ client_id_configured \in BOOLEAN
    /\ now = 0
    /\ InitTwoUsers
    /\ friendships = {}
    /\ nextFriendshipId = 1
    /\ InitCatalog
    /\ InitNoSpotify
    /\ InitNoSession

TopTracksStart ==
    \E caller \in {2}, user_id \in SpotifyUserInputs, slot \in 1..MaxInflight,
       data_status \in DataStatuses :
        /\ caller \in DOMAIN users
        /\ get_user_top_tracks_start(caller, user_id, slot, data_status)
        /\ UNCHANGED auth

TopTracksResume ==
    \E slot \in DOMAIN inflight, r \in ProviderResponses :
        /\ get_user_top_tracks_resume(slot, r.status, r.has_access, r.has_expires,
                                      r.expires_in, r.new_refresh_token, r.data_status)
        /\ UNCHANGED auth

LinkSpotify ==
    \E user \in SpotifyAccountHolders \cap DOMAIN users,
       spotify_refresh_token \in RefreshTokenInputs :
        /\ link_spotify(user, spotify_refresh_token)
        /\ token_event' = NoEvent
        /\ UNCHANGED auth

DisconnectSpotify ==
    \E user \in SpotifyAccountHolders \cap DOMAIN users :
        /\ disconnect_spotify(user)
        /\ token_event' = NoEvent
        /\ UNCHANGED auth

TickCache ==
    /\ now + CacheTickStep <= MaxCacheNow
    /\ now' = now + CacheTickStep
    /\ resp' = NoReply
    /\ token_event' = NoEvent
    /\ UNCHANGED <<fk_enforced, client_id_configured, vUsers, vFriends, vCommunities,
                   vPolls, issued, vSpotify, vSong, vListening, auth>>

NextSpotify ==
    \/ TopTracksStart
    \/ TopTracksResume
    \/ LinkSpotify
    \/ DisconnectSpotify
    \/ TickCache

SpecSpotify == InitSpotify /\ [][NextSpotify]_vars

(* =================== claims: Spotify access tokens ===================== *)
CallKinds == {"cached", "unconfigured", "outbound"}
AnswerKinds == {"refreshed", "empty", "failed", "raised"}

\* C4: after a successful refresh for u at time t every call for u within
\* 300 seconds of t returns the cached token with no outbound call; a cached
\* token is returned only while it has more than 300 seconds left; and a
\* call made after the cached entry has expired makes exactly one outbound
\* refresh call and replaces the entry.
C4_CachedFor300SecondsThenReplaced ==
    [][LET e == token_event'
           u == token_event'.user_id
       IN  /\ (/\ e.kind \in CallKinds
               /\ u \in DOMAIN refreshed_at
               /\ now - refreshed_at[u] <= 300)
                    => (e.kind = "cached" /\ e.outbound = 0)
           /\ e.kind = "cached" =>
                    /\ u \in DOMAIN access_token_cache
                    /\ access_token_cache[u].expiry - now > 300
                    /\ e.token = access_token_cache[u].token
           /\ (/\ e.kind \in CallKinds
               /\ u \in DOMAIN access_token_cache
               /\ now > access_token_cache[u].expiry)
                    => (e.kind = "outbound" /\ e.outbound = 1)
           /\ (/\ e.kind \in AnswerKinds
               /\ u \in DOMAIN access_token_cache
               /\ now > access_token_cache[u].expiry)
                    => /\ u \in DOMAIN access_token_cache'
                       /\ access_token_cache'[u] # access_token_cache[u]]_vars

HasBufferLeft(u) ==
    /\ u \in DOMAIN access_token_cache
    /\ access_token_cache[u].expiry - now > 300

\* C4 as amended: a successful refresh at time t caches the token with expiry
\* t + expires_in; a call returns the cached token, with no outbound call,
\* exactly while the entry has more than 300 seconds left; otherwise (client
\* id configured) it makes exactly one outbound call, and the entry is
\* replaced only by an answer 200 that carries an access token.
C4_CachedWhileBufferLeft ==
    [][LET e == token_event'
           u == token_event'.user_id
       IN  /\ (e.kind \in CallKinds /\ HasBufferLeft(u)) =>
                    /\ e.kind = "cached" /\ e.outbound = 0
                    /\ e.token = access_token_cache[u].token
                    /\ inflight' = inflight
                    /\ access_token_cache' = access_token_cache
           /\ e.kind = "cached" => HasBufferLeft(u)
           /\ (e.kind \in CallKinds /\ ~HasBufferLeft(u) /\ client_id_configured) =>
                    /\ e.kind = "outbound" /\ e.outbound = 1
                    /\ Cardinality(DOMAIN inflight') = Cardinality(DOMAIN inflight) + 1
                    /\ access_token_cache' = access_token_cache
           /\ e.kind = "refreshed" =>
                    /\ access_token_cache' =
                          Put(access_token_cache, u, CacheEntry(e.token, now + e.ttl))
                    /\ refreshed_at'[u] = now
           /\ e.kind \in {"empty", "failed", "raised"} =>
                    access_token_cache' = access_token_cache]_vars

C4_Witness ==
    /\ token_event.kind = "cached"
    /\ token_event.user_id \in DOMAIN refreshed_at
    /\ now > refreshed_at[token_event.user_id]
    /\ now - refreshed_at[token_event.user_id] <= 300

(* ========================= claims: friends ============================= *)
AcceptedRows(fs, u, f) == {r \in RowsFromTo(fs, u, f) : r.status = "accepted"}

\* C1: after user A accepts a pending request that B sent to A, the
\* friendship table holds exactly one accepted row A->B, exactly one accepted
\* row B->A and no other row between A and B, whatever came before.
C1_AcceptLeavesExactlyTwoRows ==
    (resp.op = "accept_friend_request" /\ resp.status = 200) =>
        LET A == resp.caller
            B == resp.target
        IN  /\ Cardinality(AcceptedRows(friendships, A, B)) = 1
            /\ Cardinality(AcceptedRows(friendships, B, A)) = 1
            /\ Cardinality(RowsFromTo(friendships, A, B) \cup RowsFromTo(friendships, B, A)) = 2

\* C8: an accepted edge a->b appears (from none or pending) only in a step
\* that is the accept of a pending incoming request.
C8_OnlyAcceptCreatesAccepted ==
    [][\A a, b \in UserIdInputs :
          (AcceptedRows(friendships, a, b) = {} /\ AcceptedRows(friendships', a, b) # {})
              => (resp'.op = "accept_friend_request" /\ resp'.status = 200)]_vars

\* C9: both request handlers reject a request whose target is the caller
\* (400) or whose target has allow_friend_requests = false (403), and the
\* friendship table is unchanged by the rejected call.
IsRequestOp(r) == r.op \in {"send_friend_request", "send_friend_request_by_username"}

C9_SelfAndDisabledRejected ==
    [][(IsRequestOp(resp') /\ resp'.target # NoUser) =>
          /\ resp'.target = resp'.caller =>
                (resp'.status = 400 /\ friendships' = friendships)
          /\ (/\ resp'.target # resp'.caller
              /\ resp'.target \in DOMAIN users
              /\ ~users[resp'.target].allow_friend_requests) =>
                (resp'.status = 403 /\ friendships' = friendships)]_vars

C9_Witness ==
    /\ resp.op = "send_friend_request_by_username"
    /\ resp.status = 403
    /\ resp.target \in DOMAIN users
    /\ ~users[resp.target].allow_friend_requests
    /\ friendships # {}

\* C10: an accepted row A->B exists if and only if an accepted row B->A
\* exists, for all users A and B, in every reachable state.
C10_AcceptedIsSymmetric ==
    \A a, b \in UserIdInputs :
        (AcceptedRows(friendships, a, b) # {}) <=> (AcceptedRows(friendships, b, a) # {})


PendingRows(fs, u, f) == {r \in RowsFromTo(fs, u, f) : r.status = "pending"}

\* C11: there is at most one pending friendship row for each ordered pair
\* (sender, recipient) in every reachable state, and a friend request that
\* would create a second pending row for the same ordered pair is rejected
\* and leaves the friendship table unchanged.
C11_OnePendingRowPerOrderedPair ==
    /\ [](\A a, b \in UserIdInputs : Cardinality(PendingRows(friendships, a, b)) <= 1)
    /\ [][(/\ IsRequestOp(resp')
           /\ PendingRows(friendships, resp'.caller, resp'.target) # {})
              => (resp'.status >= 400 /\ friendships' = friendships)]_vars

C11_Witness ==
    /\ IsRequestOp(resp)
    /\ resp.status = 400
    /\ resp.detail = "Friend request already sent"
    /\ PendingRows(friendships, resp.caller, resp.target) # {}


(* ======================== claims: poll votes =========================== *)
\* C12: there is at most one PollVote row per (user, poll) in every
\* reachable state; a re-vote by the same user on the same poll updates the
\* existing row's option and never inserts a second row.
C12_OneVoteRowPerUserAndPoll ==
    /\ [](\A u \in UserIdInputs, p \in PollIdInputs :
              Cardinality(ExistingVotes(poll_votes, u, p)) <= 1)
    /\ [][(/\ resp'.op = "vote_on_poll_endpoint" /\ resp'.status = 200
           /\ ExistingVotes(poll_votes, resp'.caller, resp'.target) # {})
              => \E e \in ExistingVotes(poll_votes, resp'.caller, resp'.target) :
                    /\ poll_votes' = (poll_votes \ {e}) \cup
                            {[e EXCEPT !.option_id = resp'.arg]}
                    /\ nextVoteId' = nextVoteId]_vars

\* the last step was a vote of a user whose row on that poll is older than
\* the newest row: the row was updated, not inserted, by it
C12_Witness ==
    /\ resp.op = "vote_on_poll_endpoint" /\ resp.status = 200
    /\ \E v \in ExistingVotes(poll_votes, resp.caller, resp.target) :
            v.id < nextVoteId - 1 /\ v.option_id = resp.arg


(* ======================= claims: memberships =========================== *)
\* C13: there is at most one membership row per (user, community) in every
\* reachable state; a join by a user who is already a member is rejected and
\* leaves the membership rows and member_count unchanged.
C13_OneMembershipRowPerUserAndCommunity ==
    /\ [](\A u \in UserIdInputs, c \in CommunityIdInputs :
              Cardinality(MembershipsOf(memberships, u, c)) <= 1)
    /\ [][(/\ resp'.op = "join_community_endpoint"
           /\ MembershipsOf(memberships, resp'.caller, resp'.target) # {})
              => /\ resp'.status >= 400
                 /\ memberships' = memberships
                 /\ communities' = communities]_vars

C13_Witness ==
    /\ resp.op = "join_community_endpoint"
    /\ resp.status = 400
    /\ MembershipsOf(memberships, resp.caller, resp.target) # {}
    /\ communities[resp.target].member_count = 1


(* ================= claims: refresh answers of the provider ============= *)
\* C14: when the provider rejects a refresh (non-200 answer),
\* get_spotify_access_token returns no token and leaves the user's stored
\* refresh token and the user's cache entry exactly as they were; sending the
\* request changes neither of them either.
C14_RejectedRefreshChangesNothing ==
    [][LET e == token_event'
       IN  /\ e.kind = "failed" =>
                /\ e.token = NoAccessToken
                /\ resp'.detail = "Spotify access expired - please reconnect"
                /\ users' = users
                /\ access_token_cache' = access_token_cache
           /\ e.kind = "outbound" =>
                (users' = users /\ access_token_cache' = access_token_cache)]_vars

\* a rejected refresh for a user with a stored refresh token and a cache entry
C14_Witness ==
    /\ token_event.kind = "failed"
    /\ token_event.user_id \in DOMAIN access_token_cache
    /\ token_event.user_id \in DOMAIN users
    /\ ~Falsy(users[token_event.user_id].spotify_refresh_token)


genres == <<"pop", "rock", "hip-hop", "indie", "r-n-b">>

\* f"{genre.capitalize()} Fans"
FansName(genre) ==
    CASE genre = "pop" -> "Pop Fans"
      [] genre = "rock" -> "Rock Fans"
      [] genre = "hip-hop" -> "Hip-hop Fans"
      [] genre = "indie" -> "Indie Fans"
      [] genre = "r-n-b" -> "R-n-b Fans"

\* Community.name.ilike(f"%{genre}%") over the names the seed and this
\* handler give to communities
NameMatches(name, genre) ==
    \/ name = FansName(genre)
    \/ genre = "hip-hop" /\ name = "Hip-Hop Heads"
    \/ genre = "indie" /\ name = "Indie Lovers"

\* the Authorization header of a request: absent, or "Bearer" with a string
\* that is no token of the session issuer (the handler hands it to the provider)
OpaqueBearer == [has_sub |-> FALSE, sub |-> <<>>, exp |-> 0, sig |-> "invalid"]

BearerInputs == {NoToken, OpaqueBearer}

\* what the provider's search may answer for one genre: the status and the
\* number of tracks; status 0 stands for a network error raised by the client
SearchAnswers == {<<401, 0>>, <<0, 0>>, <<200, 0>>, <<200, 1>>, <<200, 2>>}

\* one generation request at a time
GenerateSlots == {1}

GenerateCall(token, g) == [op |-> "generate_weekly_polls", token |-> token, genre |-> g]

\* POST /api/polls/generate up to the first search request: oauth2_scheme
\* only demands an Authorization header
generate_weekly_polls_start(token, slot) ==
    LET op == "generate_weekly_polls"
    IN  IF token = NoToken
        THEN /\ Reject(Reply(op, NoUser, NoUser, 401, "Not authenticated"))
             /\ auth' = [status |-> 401, user |-> NoUser, token |-> token]
        ELSE /\ slot \notin DOMAIN inflight
             /\ inflight' = Put(inflight, slot, GenerateCall(token, 1))
             /\ resp' = ReplyArg(op, NoUser, NoUser, 1, 0, "awaiting provider")
             /\ auth' = NoAuth
             /\ UNCHANGED <<vEnv, vUsers, vFriends, vCommunities, vPolls, issued,
                            access_token_cache, refreshed_at, vSong, vListening>>

\* the loop body without step 3: the old polls stay active
GeneratePollForKeepingOldPolls(genre, n) ==
    LET matching == {c \in DOMAIN communities : NameMatches(communities[c].name, genre)}
        created == matching = {}
        new_communities == IF created
                           THEN Append(communities, Community(FansName(genre), 0))
                           ELSE communities
        new_poll_id == Len(polls) + 1
    IN  \E community \in IF created THEN {Len(communities) + 1} ELSE matching :
            /\ Len(new_communities) <= MaxCommunityId
            /\ new_poll_id <= MaxPollId
            /\ Len(options) + n <= MaxOptionId
            /\ communities' = new_communities
            /\ polls' = Append(polls, Poll(community, TRUE))
            /\ options' = options \o [i \in 1..n |-> PollOption(new_poll_id, 0)]

\* steps 2-5 of the loop body for one genre whose search returned n tracks
GeneratePollFor(genre, n) ==
    LET matching == {c \in DOMAIN communities : NameMatches(communities[c].name, genre)}
        created == matching = {}
        new_communities == IF created
                           THEN Append(communities, Community(FansName(genre), 0))
                           ELSE communities
        new_poll_id == Len(polls) + 1
    IN  \E community \in IF created THEN {Len(communities) + 1} ELSE matching :
            /\ Len(new_communities) <= MaxCommunityId
            /\ new_poll_id <= MaxPollId
            /\ Len(options) + n <= MaxOptionId
            /\ communities' = new_communities
            /\ polls' = Append([p \in DOMAIN polls |->
                                  IF polls[p].community_id = community
                                  THEN [polls[p] EXCEPT !.is_active = FALSE]
                                  ELSE polls[p]],
                               Poll(community, TRUE))
            /\ options' = options \o [i \in 1..n |-> PollOption(new_poll_id, 0)]

\* the provider's answer for the current genre reaches the loop (main.py
\* 1347-1420); after the last genre the handler returns
generate_weekly_polls_resume(slot, status, n) ==
    LET op == "generate_weekly_polls"
        call == inflight[slot]
        g == call.genre
    IN  /\ slot \in DOMAIN inflight
        /\ call.op = op
        /\ IF status = 200 /\ n > 0
           THEN GeneratePollFor(genres[g], n)
           ELSE UNCHANGED <<communities, polls, options>>
        /\ IF g < Len(genres)
           THEN /\ inflight' = Put(inflight, slot, GenerateCall(call.token, g + 1))
                /\ resp' = ReplyArg(op, NoUser, NoUser, g + 1, 0, "awaiting provider")
           ELSE /\ inflight' = Drop(inflight, slot)
                /\ resp' = ReplyArg(op, NoUser, NoUser, g, 200, "Polls generated successfully")
        /\ auth' = NoAuth
        /\ UNCHANGED <<vEnv, vUsers, vFriends, memberships, nextMembershipId, poll_votes,
                       nextVoteId, issued, access_token_cache, refreshed_at, vSong, vListening>>

\* GET /api/communities: no Depends(get_current_user)
get_communities ==
    /\ resp' = Reply("get_communities", NoUser, NoUser, 200, "communities")
    /\ auth' = NoAuth
    /\ UNCHANGED store

\* GET /api/communities/{community_id}/top-songs: no Depends(get_current_user)
get_community_top_songs(community_id) ==
    /\ resp' = Reply("get_community_top_songs", NoUser, community_id, 200, "songs")
    /\ auth' = NoAuth
    /\ UNCHANGED store

(* ================= specification: poll generation ====================== *)
InitGenerate ==
    /\ fk_enforced = TRUE
    /\ client_id_configured = TRUE
    /\ now = 0
    /\ InitTwoUsers
    /\ friendships = {}
    /\ nextFriendshipId = 1
    /\ InitCatalog
    /\ InitNoSpotify
    /\ InitNoSession

GenerateWeeklyPolls ==
    \E token \in BearerInputs, slot \in GenerateSlots :
        generate_weekly_polls_start(token, slot) /\ UNCHANGED token_event

GenerateWeeklyPollsAnswer ==
    \E slot \in DOMAIN inflight, a \in SearchAnswers :
        generate_weekly_polls_resume(slot, a[1], a[2]) /\ UNCHANGED token_event

GetCommunities == get_communities /\ UNCHANGED token_event

GetCommunityTopSongs ==
    \E community_id \in CommunityIdInputs :
        get_community_top_songs(community_id) /\ UNCHANGED token_event

NextGenerate ==
    \/ Login
    \/ RejectBearer
    \/ GetUserSettingsWithBearer
    \/ GetCommunities
    \/ GetCommunityTopSongs
    \/ GenerateWeeklyPolls
    \/ GenerateWeeklyPollsAnswer

SpecGenerate == InitGenerate /\ [][NextGenerate]_vars

(* ==================== claims: authentication of handlers =============== *)
IssuerOps == {"none", "register", "login"}

\* C16: every handler that reads or writes the store or calls the provider
\* runs its body only after the session issuer has verified the caller's
\* bearer token to an existing user, and no table changes on behalf of a
\* caller without a valid session token (generate_weekly_polls included).
C16_HandlersRunOnlyForVerifiedCallers ==
    [][/\ (resp'.op \notin IssuerOps /\ auth'.status \notin {400, 401}) =>
              /\ auth'.status = 200
              /\ get_current_user(auth'.token).status = 200
              /\ auth'.user = get_current_user(auth'.token).user
       /\ (resp'.op \notin IssuerOps /\ <<communities, polls, options>>' # <<communities, polls, options>>)
              => auth'.status = 200]_vars


(* ==================== claims: provider failures ======================== *)
\* C17: when the provider answers a token or data request with a non-2xx
\* status, or the outbound call fails with a network error, the handler
\* still completes with a normal response carrying empty data and an
\* explanatory error; no provider failure surfaces as a server error.
C17_ProviderFailureIsDegradedResponse ==
    [][resp'.op = "get_user_top_tracks" =>
          /\ resp'.status # 500
          /\ token_event'.kind \in {"failed", "raised"} =>
                /\ resp'.status = 200
                /\ resp'.detail = "Spotify access expired - please reconnect"]_vars


(* ========================== song of the day ============================ *)
SecondsPerDay == 86400

\* datetime.now(timezone.utc).date().isoformat()
Today == <<now \div SecondsPerDay>>

SongCache(track, date) == [track |-> track, date |-> date]

\* _load_song_of_day_cache: the content of the file when it exists
LoadSongOfDayCache == IF song_of_day_file = NoFile THEN EmptySongCache ELSE song_of_day_file[1]

\* the tracks items[seed % len(items)] can be: the list is the provider's
Tracks == {"t1", "t2"}

\* the token request answers with a token, answers without one (non-200 or
\* no "access_token"), or raises
SongTokenAnswers == {"token", "none", "raised"}

\* the search request: status and the picked track (NULL for an empty list)
SongSearchAnswers ==
    {<<401, NULL>>, <<NetworkError, NULL>>, <<200, NULL>>, <<200, "t1">>, <<200, "t2">>}

SongSlots == {1, 2}

SongCall(today, stage) == [op |-> "get_song_of_day", today |-> today, stage |-> stage]

SongReply(track, status, detail) ==
    ReplyArg("get_song_of_day", NoUser, NoUser, track, status, detail)

\* GET /api/song-of-day up to the first await (main.py 950-964, 926-935)
get_song_of_day_start(slot) ==
    IF song_of_day_cache.date = Today /\ song_of_day_cache.track # NULL
    THEN Reject(SongReply(song_of_day_cache.track, 200, "cached"))
    ELSE IF ~client_id_configured
    THEN Reject(SongReply(NULL, 200, "Spotify credentials not configured"))
    ELSE /\ slot \notin DOMAIN inflight
         /\ inflight' = Put(inflight, slot, SongCall(Today, "token"))
         /\ resp' = SongReply(NULL, 0, "awaiting token")
         /\ UNCHANGED <<vEnv, vUsers, vFriends, vCommunities, vPolls, issued,
                        access_token_cache, refreshed_at, vSong, vListening>>

\* the answer to the client-credentials request (main.py 935-947, 965-966)
get_song_of_day_token(slot, answer) ==
    LET call == inflight[slot]
    IN  /\ slot \in DOMAIN inflight
        /\ call.op = "get_song_of_day" /\ call.stage = "token"
        /\ IF answer = "token"
           THEN /\ inflight' = Put(inflight, slot, SongCall(call.today, "search"))
                /\ resp' = SongReply(NULL, 0, "awaiting search")
           ELSE /\ inflight' = Drop(inflight, slot)
                /\ resp' = IF answer = "raised"
                           THEN SongReply(NULL, 500, "Internal Server Error")
                           ELSE SongReply(NULL, 200, "Spotify credentials not configured")
        /\ UNCHANGED <<vEnv, vUsers, vFriends, vCommunities, vPolls, issued,
                       access_token_cache, refreshed_at, vSong, vListening>>

\* the answer to the search request (main.py 983-1021): the cache is written
\* with the date read when the call began, and saved to the file
get_song_of_day_search(slot, status, track) ==
    LET call == inflight[slot]
    IN  /\ slot \in DOMAIN inflight
        /\ call.op = "get_song_of_day" /\ call.stage = "search"
        /\ inflight' = Drop(inflight, slot)
        /\ IF status = 200 /\ track # NULL
           THEN /\ song_of_day_cache' = SongCache(track, call.today)
                /\ song_of_day_file' = <<SongCache(track, call.today)>>
                /\ song_cached_for' =
                      IF call.today \in DOMAIN song_cached_for
                      THEN song_cached_for
                      ELSE Put(song_cached_for, call.today, track)
                /\ resp' = SongReply(track, 200, "fresh")
           ELSE /\ UNCHANGED vSong
                /\ resp' = IF status = NetworkError
                           THEN SongReply(NULL, 500, "Internal Server Error")
                           ELSE IF status # 200
                           THEN SongReply(NULL, 200, "Failed to fetch song of the day")
                           ELSE SongReply(NULL, 200, "No tracks found")
        /\ UNCHANGED <<vEnv, vUsers, vFriends, vCommunities, vPolls, issued,
                       access_token_cache, refreshed_at, vListening>>

\* the process is restarted: module globals are initialised again (main.py
\* 922, 1024) and the requests in flight are gone; tables and file stay
restart ==
    /\ song_of_day_cache' = LoadSongOfDayCache
    /\ access_token_cache' = <<>>
    /\ inflight' = <<>>
    /\ resp' = NoReply
    /\ UNCHANGED <<vEnv, vUsers, vFriends, vCommunities, vPolls, issued, refreshed_at,
                   song_of_day_file, song_cached_for, vListening>>

(* ================== specification: song of the day ===================== *)
InitSong ==
    /\ fk_enforced = TRUE
    /\ client_id_configured \in BOOLEAN
    /\ now = 0
    /\ InitTwoUsers
    /\ friendships = {}
    /\ nextFriendshipId = 1
    /\ InitCatalog
    /\ InitNoSpotify
    /\ InitNoSession

GetSongOfDay ==
    \E slot \in SongSlots : get_song_of_day_start(slot) /\ UNCHANGED trace

SongTokenAnswer ==
    \E slot \in DOMAIN inflight, answer \in SongTokenAnswers :
        get_song_of_day_token(slot, answer) /\ UNCHANGED trace

SongSearchAnswer ==
    \E slot \in DOMAIN inflight, a \in SongSearchAnswers :
        get_song_of_day_search(slot, a[1], a[2]) /\ UNCHANGED trace

Restart == restart /\ UNCHANGED trace

TickSong ==
    /\ now + SongTickStep <= MaxSongNow
    /\ now' = now + SongTickStep
    /\ resp' = NoReply
    /\ UNCHANGED <<fk_enforced, client_id_configured, vUsers, vFriends, vCommunities,
                   vPolls, issued, vSpotify, vSong, vListening, trace>>

NextSong ==
    \/ GetSongOfDay
    \/ SongTokenAnswer
    \/ SongSearchAnswer
    \/ Restart
    \/ TickSong

SpecSong == InitSong /\ [][NextSong]_vars

(* ==================== claims: song of the day ========================== *)
\* a step in which a request arrived: no call already in flight moved
SongCallArrives ==
    /\ resp'.op = "get_song_of_day"
    /\ \A k \in DOMAIN inflight : k \in DOMAIN inflight' /\ inflight'[k] = inflight[k]

\* C18: once get_song_of_day has cached a track for date d, every later call
\* on date d, also after a restart, returns that same track marked cached
\* with no outbound call; a call on a later date does not return the track
\* cached for d; a failed fetch never overwrites the cached track or date.
C18_SongOfDayFixedForTheDate ==
    [][/\ (SongCallArrives /\ Today \in DOMAIN song_cached_for) =>
              /\ resp'.detail = "cached"
              /\ resp'.arg = song_cached_for[Today]
              /\ inflight' = inflight
       /\ (resp'.op = "get_song_of_day" /\ resp'.detail = "cached") =>
              song_of_day_cache.date = Today
       /\ (resp'.op = "get_song_of_day" /\ resp'.status # 0 /\ resp'.arg = NULL) =>
              (song_of_day_cache' = song_of_day_cache /\ song_of_day_file' = song_of_day_file)]_vars


(* ================= specification: duplicate requests =================== *)
\* the handlers that can meet a duplicate: register, the two friend request
\* handlers (with cancel) and join (with leave)
InitDuplicates == InitFriends

NextDuplicates ==
    \/ Register
    \/ SendFriendRequestByUsername
    \/ SendFriendRequest
    \/ CancelFriendRequest
    \/ JoinCommunity
    \/ LeaveCommunity

SpecDuplicates == InitDuplicates /\ [][NextDuplicates]_vars

(* ======================= claims: conflicts ============================= *)
\* C19: a join by a user who is already a member, and a friend request that
\* duplicates the caller's own pending request to the same target, are each
\* answered with a conflict (409), as a duplicate username is, and leave the
\* store unchanged.
C19_DuplicatesAnswerConflict ==
    [][/\ (/\ resp'.op = "join_community_endpoint"
           /\ MembershipsOf(memberships, resp'.caller, resp'.target) # {})
              => (resp'.status = 409 /\ store' = store)
       /\ (/\ IsRequestOp(resp')
           /\ PendingRows(friendships, resp'.caller, resp'.target) # {}
           /\ users[resp'.target].allow_friend_requests)
              => (resp'.status = 409 /\ store' = store)
       /\ (/\ AcceptableRegister(resp')
           /\ get_user_by_username(resp'.arg.username) # NoUser)
              => (resp'.status = 409 /\ store' = store)]_vars


(* ====== listening activity, recent tracks, mutual songs, now playing ==== *)
TrackNameInputs == {"n1"}
PlayerStatuses == DataStatuses \cup {204}

\* database.update_listening_activity: the user's row is updated or created
update_listening_activity(user_id, track_name) ==
    listening_activity' = Put(listening_activity, user_id, track_name)

\* POST /api/user/listening
update_listening(user, track_name) ==
    IF ~users[user].show_listening_activity
    THEN Reject(Reply("update_listening", user, user, 403, "Listening activity is disabled"))
    ELSE /\ update_listening_activity(user, track_name)
         /\ resp' = Reply("update_listening", user, user, 200, "Listening activity updated")
         /\ UNCHANGED <<vEnv, vUsers, vFriends, vCommunities, vPolls, issued, vSpotify, vSong>>

\* the accepted rows current_user -> user_id the friendship check selects
FriendCheck(current_user, user_id) ==
    {r \in friendships : /\ r.user_id = current_user
                         /\ r.friend_id = user_id
                         /\ r.status = "accepted"}

\* get_spotify_access_token up to its await (main.py 1032-1057): is a
\* request sent, what is returned when none is, and what the call did
NeedsRequest(holder) == ~CacheValid(holder) /\ client_id_configured

TokenWithoutRequest(holder) ==
    IF CacheValid(holder) THEN access_token_cache[holder].token ELSE NoAccessToken

StartEvent(holder) ==
    IF CacheValid(holder)
    THEN Event("cached", holder, access_token_cache[holder].token, 0)
    ELSE IF ~client_id_configured
    THEN Event("unconfigured", holder, NoAccessToken, 0)
    ELSE Event("outbound", holder, NoAccessToken, 1)

\* a handler waiting for the provider's answer to the token request of holder
ReadCall(op, caller, user_id, holder, my_token) ==
    [op |-> op, caller |-> caller, user_id |-> user_id, holder |-> holder,
     refresh_token |-> users[holder].spotify_refresh_token, my_token |-> my_token]

\* the rest of get_user_recent_tracks (main.py 1455-1489) and of
\* get_user_currently_playing (1590-1628) once the token call has returned
ReadReply(op, caller, user_id, access_token, data_status) ==
    IF access_token = NoAccessToken
    THEN Reply(op, caller, user_id, 200, "Spotify access expired")
    ELSE IF data_status = NetworkError
    THEN Reply(op, caller, user_id, 500, "Internal Server Error")
    ELSE IF data_status = 204 /\ op = "get_user_currently_playing"
    THEN Reply(op, caller, user_id, 200, "not playing")
    ELSE IF data_status = 200
    THEN Reply(op, caller, user_id, 200, "data")
    ELSE Reply(op, caller, user_id, 200, "Spotify API error")

\* the rest of get_mutual_songs (main.py 1524-1573) once it holds both tokens
MutualReply(caller, user_id, my_token, their_token, my_status, their_status) ==
    LET op == "get_mutual_songs"
    IN  IF my_token = NoAccessToken
        THEN Reply(op, caller, user_id, 200, "Your Spotify access expired")
        ELSE IF their_token = NoAccessToken
        THEN Reply(op, caller, user_id, 200, "Friend's Spotify access expired")
        ELSE IF NetworkError \in {my_status, their_status}
        THEN Reply(op, caller, user_id, 500, "Internal Server Error")
        ELSE IF my_status # 200 \/ their_status # 200
        THEN Reply(op, caller, user_id, 200, "Failed to fetch listening history")
        ELSE Reply(op, caller, user_id, 200, "mutual_tracks")

\* the token call of a handler that needs one token (main.py 1454, 1589)
ReadWithToken(op, caller, user_id, slot, data_status) ==
    /\ token_event' = StartEvent(user_id)
    /\ IF NeedsRequest(user_id)
       THEN /\ slot \notin DOMAIN inflight
            /\ inflight' = Put(inflight, slot,
                               ReadCall(op, caller, user_id, user_id, NoAccessToken))
            /\ resp' = Reply(op, caller, user_id, 0, "awaiting provider")
            /\ UNCHANGED <<vEnv, vUsers, vFriends, vCommunities, vPolls, issued,
                           access_token_cache, refreshed_at, vSong, vListening>>
       ELSE /\ resp' = ReadReply(op, caller, user_id, TokenWithoutRequest(user_id), data_status)
            /\ UNCHANGED store

\* GET /api/users/{user_id}/recent-tracks up to its first await
get_user_recent_tracks(current_user, user_id, slot, data_status) ==
    LET op == "get_user_recent_tracks"
        is_self == user_id = current_user
        is_friend == ~is_self /\ FriendCheck(current_user, user_id) # {}
    IN  IF user_id \notin DOMAIN users
        THEN /\ Reject(Reply(op, current_user, user_id, 404, "User not found"))
             /\ token_event' = NoEvent
        ELSE IF ~is_self /\ ~is_friend
        THEN /\ Reject(Reply(op, current_user, user_id, 200,
                             "You must be friends to see recent tracks"))
             /\ token_event' = NoEvent
        ELSE IF Falsy(users[user_id].spotify_refresh_token)
        THEN /\ Reject(Reply(op, current_user, user_id, 200, "User has not linked Spotify"))
             /\ token_event' = NoEvent
        ELSE ReadWithToken(op, current_user, user_id, slot, data_status)

\* GET /api/users/{user_id}/currently-playing up to its first await
get_user_currently_playing(current_user, user_id, slot, data_status) ==
    LET op == "get_user_currently_playing"
    IN  IF user_id \notin DOMAIN users
        THEN /\ Reject(Reply(op, current_user, user_id, 404, "User not found"))
             /\ token_event' = NoEvent
        ELSE IF ~users[user_id].show_listening_activity
        THEN /\ Reject(Reply(op, current_user, user_id, 200,
                             "User has disabled listening activity"))
             /\ token_event' = NoEvent
        ELSE IF Falsy(users[user_id].spotify_refresh_token)
        THEN /\ Reject(Reply(op, current_user, user_id, 200, "User has not linked Spotify"))
             /\ token_event' = NoEvent
        ELSE ReadWithToken(op, current_user, user_id, slot, data_status)

\* get_mutual_songs from its second token call on (main.py 1522-1573), the
\* calls still waiting being base
MutualTheirToken(current_user, user_id, my_token, slot, base, my_status, their_status) ==
    IF NeedsRequest(user_id)
    THEN /\ inflight' = Put(base, slot,
                            ReadCall("get_mutual_songs", current_user, user_id, user_id, my_token))
         /\ resp' = Reply("get_mutual_songs", current_user, user_id, 0, "awaiting provider")
    ELSE /\ inflight' = base
         /\ resp' = MutualReply(current_user, user_id, my_token,
                                TokenWithoutRequest(user_id), my_status, their_status)

\* GET /api/users/{user_id}/mutual-songs up to its first await
get_mutual_songs(current_user, user_id, slot, my_status, their_status) ==
    LET op == "get_mutual_songs"
    IN  IF user_id = current_user
        THEN /\ Reject(Reply(op, current_user, user_id, 200, "Cannot compare with yourself"))
             /\ token_event' = NoEvent
        ELSE IF user_id \notin DOMAIN users
        THEN /\ Reject(Reply(op, current_user, user_id, 404, "User not found"))
             /\ token_event' = NoEvent
        ELSE IF FriendCheck(current_user, user_id) = {}
        THEN /\ Reject(Reply(op, current_user, user_id, 200,
                             "You must be friends to compare listening"))
             /\ token_event' = NoEvent
        ELSE IF Falsy(users[current_user].spotify_refresh_token)
        THEN /\ Reject(Reply(op, current_user, user_id, 200, "You haven't linked your Spotify"))
             /\ token_event' = NoEvent
        ELSE IF Falsy(users[user_id].spotify_refresh_token)
        THEN /\ Reject(Reply(op, current_user, user_id, 200, "Friend hasn't linked their Spotify"))
             /\ token_event' = NoEvent
        ELSE /\ slot \notin DOMAIN inflight
             /\ IF NeedsRequest(current_user)
                THEN /\ token_event' = StartEvent(current_user)
                     /\ inflight' = Put(inflight, slot,
                            ReadCall(op, current_user, user_id, current_user, NoAccessToken))
                     /\ resp' = Reply(op, current_user, user_id, 0, "awaiting provider")
                ELSE /\ token_event' = StartEvent(user_id)
                     /\ MutualTheirToken(current_user, user_id,
                                         TokenWithoutRequest(current_user), slot, inflight,
                                         my_status, their_status)
             /\ UNCHANGED <<vEnv, vUsers, vFriends, vCommunities, vPolls, issued,
                            access_token_cache, refreshed_at, vSong, vListening>>

\* the provider answers the token request of a waiting handler (main.py
\* 1058-1089) and the handler goes on: to its reply, or, in get_mutual_songs
\* after the caller's token, to the token call for the other user
spotify_read_resume(slot, status, has_access, has_expires, expires_in, new_refresh_token, data_status, their_status) ==
    LET call == inflight[slot]
        holder == call.holder
        access_token == IF status = 200 /\ has_access
                        THEN AccessToken(call.refresh_token, now) ELSE NoAccessToken
        ttl == IF has_expires THEN expires_in ELSE DEFAULT_EXPIRES_IN
    IN  /\ slot \in DOMAIN inflight
        /\ IF status = 200
           THEN /\ access_token_cache' =
                      IF access_token # NoAccessToken
                      THEN Put(access_token_cache, holder, CacheEntry(access_token, now + ttl))
                      ELSE access_token_cache
                /\ refreshed_at' =
                      IF access_token # NoAccessToken
                      THEN Put(refreshed_at, holder, now) ELSE refreshed_at
                /\ StoreRotatedRefreshToken(holder, new_refresh_token)
                /\ token_event' =
                      IF access_token # NoAccessToken
                      THEN EventAnswer("refreshed", holder, access_token, ttl, new_refresh_token)
                      ELSE EventAnswer("empty", holder, access_token, 0, new_refresh_token)
           ELSE /\ ProviderRejected(holder)
                /\ token_event' = Event(IF status = NetworkError THEN "raised" ELSE "failed",
                                        holder, NoAccessToken, 0)
        /\ IF status = NetworkError
           THEN /\ inflight' = Drop(inflight, slot)
                /\ resp' = Reply(call.op, call.caller, call.user_id, 500, "Internal Server Error")
           ELSE IF call.op # "get_mutual_songs"
           THEN /\ inflight' = Drop(inflight, slot)
                /\ resp' = ReadReply(call.op, call.caller, call.user_id, access_token, data_status)
           ELSE IF holder = call.caller
           THEN MutualTheirToken(call.caller, call.user_id, access_token, slot,
                                 Drop(inflight, slot), data_status, their_status)
           ELSE /\ inflight' = Drop(inflight, slot)
                /\ resp' = MutualReply(call.caller, call.user_id, call.my_token,
                                       access_token, data_status, their_status)
        /\ UNCHANGED <<vEnv, nextUserId, vFriends, vCommunities, vPolls, issued, vSong,
                       vListening>>

(* ==================== specification: privacy =========================== *)
\* user 1 asks and reads, user 2 is asked, sets the privacy flags, reports
\* tracks and may link a Spotify account; both may answer or withdraw requests
Requesters == {1}
PrivateUsers == {2}
PrivacySlots == {1}
PrivacyAnswers ==
    {ProviderResponse(400, FALSE, FALSE, 0, NULL, 500),
     ProviderResponse(NetworkError, FALSE, FALSE, 0, NULL, 500),
     ProviderResponse(200, TRUE, TRUE, 700, NULL, 200)}

InitPrivacy ==
    /\ fk_enforced = TRUE
    /\ client_id_configured = TRUE
    /\ now = 0
    /\ InitTwoUsers
    /\ friendships = {}
    /\ nextFriendshipId = 1
    /\ InitCatalog
    /\ InitNoSpotify
    /\ InitNoSession

RequestFriend ==
    \E user \in Requesters, id \in UserIdInputs :
        send_friend_request(user, id) /\ UNCHANGED trace

UpdatePrivacySettings ==
    \E user \in PrivateUsers, show_given, show, allow_given, allow \in BOOLEAN :
        update_user_settings(user, show_given, show, allow_given, allow) /\ UNCHANGED trace

UpdateListening ==
    \E user \in PrivateUsers, track_name \in TrackNameInputs :
        update_listening(user, track_name) /\ UNCHANGED trace

GetUserRecentTracks ==
    \E current_user \in DOMAIN users, user_id \in UserIdInputs, slot \in PrivacySlots,
       data_status \in DataStatuses :
        get_user_recent_tracks(current_user, user_id, slot, data_status) /\ UNCHANGED auth

GetMutualSongs ==
    \E current_user \in DOMAIN users, user_id \in UserIdInputs, slot \in PrivacySlots,
       my_status, their_status \in DataStatuses :
        get_mutual_songs(current_user, user_id, slot, my_status, their_status)
        /\ UNCHANGED auth

GetUserCurrentlyPlaying ==
    \E current_user \in DOMAIN users, user_id \in UserIdInputs, slot \in PrivacySlots,
       data_status \in PlayerStatuses :
        get_user_currently_playing(current_user, user_id, slot, data_status)
        /\ UNCHANGED auth

SpotifyReadResume ==
    \E slot \in DOMAIN inflight, r \in PrivacyAnswers, their_status \in DataStatuses :
        /\ spotify_read_resume(slot, r.status, r.has_access, r.has_expires, r.expires_in,
                               r.new_refresh_token, r.data_status, their_status)
        /\ UNCHANGED auth

LinkSpotifyAccount ==
    \E user \in PrivateUsers :
        /\ link_spotify(user, "rt1")
        /\ token_event' = NoEvent
        /\ UNCHANGED auth

NextPrivacy ==
    \/ RequestFriend
    \/ AcceptFriendRequest
    \/ RejectFriendRequest
    \/ CancelFriendRequest
    \/ UpdatePrivacySettings
    \/ UpdateListening
    \/ GetUserRecentTracks
    \/ GetMutualSongs
    \/ GetUserCurrentlyPlaying
    \/ SpotifyReadResume
    \/ LinkSpotifyAccount

SpecPrivacy == InitPrivacy /\ [][NextPrivacy]_vars


(* ======================== claims: refusals ============================= *)
\* a request row exists and the caller is not its recipient / not its sender
NotRecipient(user, request_id) == \E r \in GetFriendship(request_id) : r.friend_id # user
NotSender(user, request_id) == \E r \in GetFriendship(request_id) : r.user_id # user

\* the step is an accept or reject by a non-recipient or a cancel by a non-sender
RefusedNotOwner ==
    \E user \in DOMAIN users, id \in RequestIdInputs :
        \/ /\ NotRecipient(user, id)
           /\ accept_friend_request(user, id) \/ reject_friend_request(user, id)
        \/ /\ NotSender(user, id)
           /\ cancel_friend_request(user, id)

\* the step is a recent-tracks or mutual-songs request for another user who
\* has no accepted friendship row from the caller
RefusedNotFriend ==
    \E current_user \in DOMAIN users, slot \in PrivacySlots,
       my_status, their_status \in DataStatuses :
        \E user_id \in DOMAIN users \ {current_user} :
            /\ FriendCheck(current_user, user_id) = {}
            /\ \/ get_user_recent_tracks(current_user, user_id, slot, my_status)
               \/ get_mutual_songs(current_user, user_id, slot, my_status, their_status)

\* the step is a listening update by a user whose show_listening_activity is
\* off, a currently-playing request for such a user, or a friend request to
\* a user whose allow_friend_requests is off
RefusedByFlag ==
    \/ \E user \in DOMAIN users, track_name \in TrackNameInputs :
          /\ ~users[user].show_listening_activity
          /\ update_listening(user, track_name)
    \/ \E current_user, user_id \in DOMAIN users, slot \in PrivacySlots,
          data_status \in PlayerStatuses :
          /\ ~users[user_id].show_listening_activity
          /\ get_user_currently_playing(current_user, user_id, slot, data_status)
    \/ \E user \in DOMAIN users :
          \E user_id \in DOMAIN users \ {user} :
              /\ ~users[user_id].allow_friend_requests
              /\ send_friend_request(user, user_id)

\* C20: every request refused because the caller is not the resource owner,
\* is not a friend of the target, or because a privacy flag is disabled, is
\* answered forbidden (403) and leaves the store unchanged.
C20_RefusalsAnswerForbidden ==
    [][(RefusedNotOwner \/ RefusedNotFriend \/ RefusedByFlag)
           => (resp'.status = 403 /\ store' = store)]_vars


(* ========================= claims: login =============================== *)
\* the step is a login with a password of acceptable length that was refused
FailedLogin(r) == r.op = "login" /\ ~PasswordTooLong(r.arg.password) /\ r.status # 200

\* C21: for every username and password of acceptable length a failed login
\* returns the same status and the same message whether the username is
\* unknown or the password is wrong, and issues no token: the answer is the
\* one fixed reply, the same in the two runs.
C21_FailedLoginHidesTheCause ==
    [][FailedLogin(resp') =>
          /\ resp' = ReplyArg("login", NoUser, NoUser, resp'.arg, 400,
                              "Incorrect username or password")
          /\ issued' = issued
          /\ store' = store]_vars

\* a login with an unknown username was refused while another account exists
\* whose password the same request does not match
C21_Witness ==
    /\ FailedLogin(resp)
    /\ get_user_by_username(resp.arg.username) = NoUser
    /\ \E i \in DOMAIN users : ~Verify(resp.arg.password, users[i].password_hash)


(* ================ specification: friends' tracks ======================= *)
\* two accounts that have linked Spotify become friends, stop being friends
\* and read each other's tracks
TrackAnswers ==
    {ProviderResponse(400, FALSE, FALSE, 0, NULL, 500),
     ProviderResponse(200, TRUE, TRUE, 700, NULL, 200)}

InitTracks ==
    /\ fk_enforced = TRUE
    /\ client_id_configured = TRUE
    /\ now = 0
    /\ users = [i \in {1, 2} |->
                  [Users(IF i = 1 THEN <<"a">> ELSE <<"b">>, Hash(PwShort))
                      EXCEPT !.spotify_refresh_token = "rt1"]]
    /\ nextUserId = 3
    /\ friendships = {}
    /\ nextFriendshipId = 1
    /\ InitCatalog
    /\ InitNoSpotify
    /\ InitNoSession

TracksAnswer ==
    \E slot \in DOMAIN inflight, r \in TrackAnswers, their_status \in {200} :
        /\ spotify_read_resume(slot, r.status, r.has_access, r.has_expires, r.expires_in,
                               r.new_refresh_token, r.data_status, their_status)
        /\ UNCHANGED auth

NextTracks ==
    \/ RequestFriend
    \/ AcceptFriendRequest
    \/ AddFriendEndpoint
    \/ RemoveFriendEndpoint
    \/ GetUserRecentTracks
    \/ GetMutualSongs
    \/ TracksAnswer

SpecTracks == InitTracks /\ [][NextTracks]_vars

(* ====================== claims: friends' tracks ======================== *)
NotFriendsDetails ==
    {"You must be friends to see recent tracks", "You must be friends to compare listening"}

\* the step is a recent-tracks or mutual-songs request of current_user for user_id
TracksRequest(current_user, user_id) ==
    \E slot \in PrivacySlots, my_status, their_status \in DataStatuses :
        \/ get_user_recent_tracks(current_user, user_id, slot, my_status)
        \/ get_mutual_songs(current_user, user_id, slot, my_status, their_status)

\* the last request was a successful removal of a friend
FriendRemoved == resp.op = "remove_friend_endpoint" /\ resp.status = 200

\* C22: get_user_recent_tracks and get_mutual_songs return another user's
\* tracks only if an accepted friendship exists at the time of the call: a
\* request for a user with no accepted row from the caller is refused and
\* starts no provider call, and after a removal by either side the next
\* request of either user for the other is refused.
C22_TracksOnlyForFriends ==
    [][/\ RefusedNotFriend => (resp'.detail \in NotFriendsDetails /\ store' = store)
       /\ (/\ FriendRemoved
           /\ \/ TracksRequest(resp.caller, resp.target)
              \/ TracksRequest(resp.target, resp.caller))
              => resp'.detail \in NotFriendsDetails]_vars


(* ============== specification: overlapping poll generation ============= *)
\* two generation requests at a time; the provider refuses a genre or
\* returns one track for it
OverlapSlots == {1, 2}
OverlapAnswers == {<<401, 0>>, <<200, 1>>}

GenerateOverlapping ==
    \E slot \in OverlapSlots :
        generate_weekly_polls_start(OpaqueBearer, slot) /\ UNCHANGED token_event

GenerateOverlappingAnswer ==
    \E slot \in DOMAIN inflight, a \in OverlapAnswers :
        generate_weekly_polls_resume(slot, a[1], a[2]) /\ UNCHANGED token_event

NextWeekly ==
    \/ GenerateOverlapping
    \/ GenerateOverlappingAnswer

SpecWeekly == InitGenerate /\ [][NextWeekly]_vars

(* ======================= claims: weekly polls ========================== *)
ActivePollsOf(community_id) ==
    {p \in DOMAIN polls : polls[p].community_id = community_id /\ polls[p].is_active}

\* no generate_weekly_polls call is between two of its steps
GenerationCompleted == \A slot \in DOMAIN inflight : inflight[slot].op # "generate_weekly_polls"

AtMostOneActivePoll ==
    GenerationCompleted =>
        \A c \in DOMAIN communities : Cardinality(ActivePollsOf(c)) <= 1

\* C23: in every state reached once generate_weekly_polls calls have
\* completed (also when two calls overlapped) each community has at most one
\* active poll: the step that creates the new poll of a community leaves
\* every earlier poll of that community inactive.
C23_OneActivePollPerCommunity ==
    /\ []AtMostOneActivePoll
    /\ [][Len(polls') > Len(polls) =>
            \A p \in DOMAIN polls :
                polls[p].community_id = polls'[Len(polls')].community_id
                    => ~polls'[p].is_active]_vars

\* every call has returned and a community that had an active poll got two more
C23_Witness ==
    /\ inflight = <<>>
    /\ resp.detail = "Polls generated successfully"
    /\ \E c \in DOMAIN communities :
          /\ Cardinality({p \in DOMAIN polls : polls[p].community_id = c}) = 3
          /\ Cardinality(ActivePollsOf(c)) = 1


(* ============== vote_on_poll with its commit as a step ================= *)
\* database.py 240-265: the lookups and the changes made to session objects;
\* nothing is written before session.commit(). The handler has no await, so
\* no other request runs between this step and the commit
vote_on_poll_begin(user_id, poll_id, option_id) ==
    /\ resp.detail # "uncommitted"
    /\ resp' = ReplyArg("vote_on_poll_endpoint", user_id, poll_id, option_id, 0, "uncommitted")
    /\ UNCHANGED store

\* a commit after the decrement alone, with the process dying before the rest
vote_on_poll_commit_decrement_alone ==
    /\ resp.detail = "uncommitted"
    /\ IF ExistingVotes(poll_votes, resp.caller, resp.target) = {}
       THEN vote_on_poll(resp.caller, resp.target, resp.arg)
       ELSE /\ \E existing_vote \in ExistingVotes(poll_votes, resp.caller, resp.target) :
                  options' = DecrementOld(options, existing_vote.option_id)
            /\ resp' = NoReply
            /\ UNCHANGED <<exceptPolls, polls, poll_votes, nextVoteId>>

\* database.py 267-273: session.commit() writes the decrement, the vote row
\* and the increment in one transaction, or fails and is rolled back
vote_on_poll_commit ==
    /\ resp.detail = "uncommitted"
    /\ vote_on_poll(resp.caller, resp.target, resp.arg)

\* the process dies: the changes of a session that has not committed are lost
crash ==
    /\ resp' = NoReply
    /\ inflight' = <<>>
    /\ access_token_cache' = <<>>
    /\ UNCHANGED <<vEnv, vUsers, vFriends, vCommunities, vPolls, issued, refreshed_at,
                   vSong, vListening>>

(* ================= specification: votes and crashes ==================== *)
VoteBegin ==
    \E user \in DOMAIN users, poll_id \in PollIdInputs, option_id \in OptionIdInputs :
        vote_on_poll_begin(user, poll_id, option_id) /\ UNCHANGED trace

VoteCommit == vote_on_poll_commit /\ UNCHANGED trace

Crash == crash /\ UNCHANGED trace

NextCrash ==
    \/ VoteBegin
    \/ VoteCommit
    \/ Crash

SpecCrash == InitPolls /\ [][NextCrash]_vars

(* ===================== claims: atomicity of a vote ===================== *)
\* some tally went down in the step
TallyDecremented == \E o \in DOMAIN options : options'[o].votes < options[o].votes

\* the vote of the request that is about to commit replaces a vote of the
\* same user on the same poll for another option
SwitchUncommitted ==
    /\ resp.detail = "uncommitted"
    /\ \E v \in ExistingVotes(poll_votes, resp.caller, resp.target) : v.option_id # resp.arg

\* C24 as stated: the decrement of a vote switch is a commit of its own, so
\* the step that makes it durable raises no tally and leaves the vote rows
C24_DecrementIsItsOwnCommit ==
    [][TallyDecremented =>
          /\ \A o \in DOMAIN options : options'[o].votes <= options[o].votes
          /\ poll_votes' = poll_votes]_vars

\* C24: a vote switch is carried out in one commit: the step that makes the
\* old option's decrement durable also makes the vote row's update and the
\* new option's increment durable, and a crash before it leaves the tallies
\* and the vote rows as they were.
C24_VoteSwitchIsOneCommit ==
    [][/\ SwitchUncommitted =>
            \/ <<options, poll_votes>>' = <<options, poll_votes>>
            \/ \E v \in ExistingVotes(poll_votes, resp.caller, resp.target) :
                  /\ options' = IncrementNew(DecrementOld(options, v.option_id), resp.arg)
                  /\ poll_votes' = (poll_votes \ {v}) \cup {[v EXCEPT !.option_id = resp.arg]}
       /\ TallyDecremented => SwitchUncommitted]_vars

\* a switch to another option of the same poll has been prepared and not
\* committed: the point at which a crash would fall
C24_Witness ==
    /\ SwitchUncommitted
    /\ resp.arg \in DOMAIN options
    /\ options[resp.arg].poll_id = resp.target


(* =================== claims: concurrent refreshes ====================== *)
\* a refresh for user u is awaiting the provider
RefreshInFlight(u) == \E s \in DOMAIN inflight : inflight[s].user_id = u

\* C25: token requests for the same user are not mutually excluded: a call
\* for u that arrives while another refresh for u is awaiting the provider
\* and u has no valid cache entry sends its own outbound refresh call with
\* the stored refresh token, so two such calls are in flight together.
C25_RefreshesAreNotExcluded ==
    [][LET e == token_event'
           u == token_event'.user_id
       IN  (/\ e.kind \in CallKinds
            /\ RefreshInFlight(u)
            /\ ~CacheValid(u)
            /\ client_id_configured)
               => /\ e.kind = "outbound" /\ e.outbound = 1
                  /\ \E s \in DOMAIN inflight' \ DOMAIN inflight :
                        /\ inflight'[s].user_id = u
                        /\ inflight'[s].refresh_token = users[u].spotify_refresh_token]_vars

\* two refresh calls for one user are awaiting the provider with the same
\* refresh token, the one stored for the user, and no cache entry is valid
C25_Witness ==
    \E s, t \in DOMAIN inflight :
        /\ s # t
        /\ inflight[s].user_id = inflight[t].user_id
        /\ inflight[s].refresh_token = inflight[t].refresh_token
        /\ inflight[s].user_id \in DOMAIN users
        /\ inflight[s].refresh_token = users[inflight[s].user_id].spotify_refresh_token
        /\ ~CacheValid(inflight[s].user_id)


(* ================= claims: disconnect and link ========================= *)
\* u's stored refresh token is null, as it is before the first link and after
\* a disconnect, and the cache has no entry for u
Disconnected(u) ==
    /\ u \in DOMAIN users
    /\ users[u].spotify_refresh_token = NULL
    /\ u \notin DOMAIN access_token_cache

\* C26: after disconnect_spotify for u returns, u's stored refresh token is
\* null and the cache holds no entry for u, and both stay so until u calls
\* link_spotify, also when a token call for u was awaiting the provider when
\* the disconnect ran.
C26_DisconnectedUntilLinked ==
    [][/\ (resp'.op = "disconnect_spotify" /\ resp'.status = 200)
              => (/\ users'[resp'.caller].spotify_refresh_token = NULL
                  /\ resp'.caller \notin DOMAIN access_token_cache')
       /\ \A u \in DOMAIN users :
              (Disconnected(u) /\ ~(resp'.op = "link_spotify" /\ resp'.caller = u))
                  => (/\ users'[u].spotify_refresh_token = NULL
                      /\ u \notin DOMAIN access_token_cache')]_vars


\* the step hands an access token for u to its caller
ReturnsToken(e, u) ==
    /\ e.kind \in {"cached", "refreshed"}
    /\ e.user_id = u
    /\ e.token # NoAccessToken

\* C27: after link_spotify stores a new refresh token for u, the next access
\* token returned for u is one obtained with that refresh token, never one
\* cached from the token linked before: a token call answered right after
\* the link returns a token that was obtained with the stored refresh token.
C27_NewLinkNewAccessToken ==
    [][(/\ resp.op = "link_spotify" /\ resp.status = 200
        /\ ReturnsToken(token_event', resp.caller))
           => token_event'.token =
                  AccessToken(users[resp.caller].spotify_refresh_token, token_event'.token[2])]_vars


(* ================== claims: votes and their polls ====================== *)
VoteNamesOptionOfItsPoll ==
    \A v \in poll_votes :
        /\ v.option_id \in DOMAIN options
        /\ options[v.option_id].poll_id = v.poll_id

\* C28: in every reachable state each PollVote row's option_id refers to an
\* option of that row's poll_id, and a vote on poll P changes the tallies
\* only of options that belong to P.
C28_VotesStayInsideTheirPoll ==
    /\ []VoteNamesOptionOfItsPoll
    /\ [][resp'.op = "vote_on_poll_endpoint" =>
            \A o \in DOMAIN options :
                options'[o].votes # options[o].votes => options[o].poll_id = resp'.target]_vars


(* ================== claims: tokens and accounts ======================== *)
\* the account named by the last response was created in the last step, and
\* the bearer token presented now carries its username but was issued before
\* that: it was issued to an earlier account of the same name
TokenOfEarlierAccount(token) ==
    /\ resp.op = "register" /\ resp.status = 200
    /\ token.sig = "valid" /\ token.has_sub
    /\ token.sub = resp.arg.username
    /\ token.exp < now + ACCESS_TOKEN_EXPIRE_MINUTES * 60

\* C29: a bearer token authenticates only the account it was issued to:
\* after delete_account and a later register of the same username, a token
\* issued to the deleted account is rejected and does not resolve to the
\* new account.
C29_TokenBoundToItsAccount ==
    [][(auth'.status # 0 /\ TokenOfEarlierAccount(auth'.token))
           => (auth'.status # 200 /\ auth'.user = NoUser)]_vars

(* ================ claims: member_count and memberships ================= *)
MembershipRows(ms, c) == Cardinality({m \in ms : m.community_id = c})

\* both numbers of community c move by d in this step
BothChangeBy(c, d) ==
    /\ communities'[c].member_count = communities[c].member_count + d
    /\ MembershipRows(memberships', c) = MembershipRows(memberships, c) + d

\* the amount by which the handler answering r moves community c
ChangeOf(r, c) ==
    IF r.status # 200 \/ r.target # c THEN 0
    ELSE IF r.op = "join_community_endpoint" THEN 1
    ELSE IF r.op = "leave_community_endpoint" THEN -1
    ELSE 0

\* C30: with every request running to completion, member_count minus the
\* number of membership rows of a community is the same before and after
\* every step: a successful join adds 1 to both, a successful leave takes 1
\* from both, and every other step, delete_account included, changes
\* neither.
C30_CountAndRowsMoveTogether ==
    [][/\ DOMAIN communities' = DOMAIN communities
       /\ \A c \in DOMAIN communities :
            IF resp'.op = "delete_account"
            THEN BothChangeBy(c, 0)
            ELSE BothChangeBy(c, ChangeOf(resp', c))]_vars

\* an account that still has a membership row was deleted, after a join
\* and a leave of some community
C30_Witness ==
    /\ resp.op = "delete_account"
    /\ resp.status = 200
    /\ \E m \in memberships : m.user_id = resp.target
    /\ Cardinality(memberships) < nextMembershipId - 1

====
